---- MODULE Spec2Model ----
(***************************************************************************)
(* SIM-RISK Web: Monte Carlo engine (montecarlo module) and the percentile *)
(* helper of the visualisation module.                                     *)
(*                                                                         *)
(* Number system.  JavaScript doubles are modelled by fixed-point          *)
(* integers; every quantity carries its scale in its name:                 *)
(*   - item values a, m, b          : integers (grid step 1, so a          *)
(*     comparison "x < y - 1e-10" on the grid is "x < y")                  *)
(*   - uniforms, Gamma arithmetic   : scale F  (value * F)                 *)
(*   - Beta draws, samples, totals  : scale BQ (value * BQ)                *)
(* NaN and +Infinity are two sentinel values with IEEE semantics on the    *)
(* operations the engine applies to them.                                  *)
(* percentile is computed on exact IEEE-754 doubles (see its section).     *)
(* The 32-bit xorshift state is kept exactly, as two 16-bit halves.        *)
(***************************************************************************)
EXTENDS Integers, Sequences, FiniteSets, TLC

(* ------------------------------ bounds -------------------------------- *)
MaxIter == 2
MaxLen == 3
MaxVal == 3
MaxSample == 2
MaxDraws == 8
PolarGrid == 16

(* --------------------------- number system ---------------------------- *)
F == 256
BQ == 8
NaN == -1000000
Inf == 1000000
Hole == -2000000
\* a string that starts with the number n and goes on with other characters
\* ("1x" for n = 1) is held as TxtBase + n
TxtBase == 3000000
\* undefined or null handed over in place of an array is held as <<Nullish>>
Nullish == -3000000

IsNaN(x) == x = NaN
IsFinite(x) == x # NaN /\ x # Inf

\* const v = ...; then the rest of the function body K, with v evaluated once
Then(v, K(_)) == CHOOSE r \in {K(x) : x \in {v}} : TRUE

Min2(x, y) == IF x < y THEN x ELSE y
Max2(x, y) == IF x > y THEN x ELSE y

\* Math.sqrt on non-negative fixed-point input: floor of the square root,
\* found in two stages (the multiple of SqrtStep below it, then the rest)
SqrtStep == 128
SqrtCoarse(n) == CHOOSE c \in 0..361 : (SqrtStep * (c + 1)) * (SqrtStep * (c + 1)) > n
SqrtFine(n, base) == CHOOSE r \in base..(base + SqrtStep - 1) : (r + 1) * (r + 1) > n
ISqrt(n) == IF n <= 0 THEN 0 ELSE SqrtFine(n, SqrtStep * SqrtCoarse(n))

LN2F == 177

\* ln of a mantissa in [1, 2) at scale F, by the atanh series
LnMant(mF) ==
    LET t == ((mF - F) * F) \div (mF + F)
        t2 == (t * t) \div F
        t3 == (t2 * t) \div F
        t5 == (t3 * t2) \div F
    IN 2 * (t + (t3 \div 3) + (t5 \div 5))

\* Math.log(num/den) at scale F, for num > 0, den > 0: the binary exponent
\* times ln 2, plus the logarithm of the mantissa
LnRatio(num, den) ==
    IF num < den
    THEN LnMant((num * (2 ^ (CHOOSE k \in 1..31 : num * (2 ^ k) >= den)) * F) \div den)
         - LN2F * (CHOOSE k \in 1..31 : num * (2 ^ k) >= den)
    ELSE LnMant((num * F) \div (den * (2 ^ (CHOOSE k \in 0..31 : num < 2 * den * (2 ^ k)))))
         + LN2F * (CHOOSE k \in 0..31 : num < 2 * den * (2 ^ k))

RECURSIVE ExpNeg(_)
\* Math.exp(y) at scale F for y <= 0 (scale F)
ExpNeg(yF) ==
    IF yF < -LN2F THEN ExpNeg(yF + LN2F) \div 2
    ELSE F + yF + ((yF * yF) \div (2 * F)) + ((((yF * yF) \div F) * yF) \div (6 * F))

(* --------------------- 32-bit words as 16-bit halves ------------------- *)
W16 == 65536

RECURSIVE XorBits(_, _, _)
XorBits(x, y, bits) ==
    IF bits = 0 THEN 0
    ELSE 2 * XorBits(x \div 2, y \div 2, bits - 1) + (IF (x % 2) = (y % 2) THEN 0 ELSE 1)

\* the exclusive or of two 4-bit digits, tabulated
XorNibble == [x \in 0..15 |-> [y \in 0..15 |-> XorBits(x, y, 4)]]

Xor16(x, y) ==
    XorNibble[x % 16][y % 16]
    + 16 * XorNibble[(x \div 16) % 16][(y \div 16) % 16]
    + 256 * XorNibble[(x \div 256) % 16][(y \div 256) % 16]
    + 4096 * XorNibble[x \div 4096][y \div 4096]

Xor32(x, y) == [hi |-> Xor16(x.hi, y.hi), lo |-> Xor16(x.lo, y.lo)]

\* x << k for 0 < k < 16, truncated to 32 bits
Shl32(x, k) ==
    LET p == 2 ^ k
        q == 2 ^ (16 - k)
    IN [hi |-> ((x.hi % q) * p + (x.lo \div q)) % W16, lo |-> (x.lo % q) * p]

\* x >>> 17
Shr17(x) == [hi |-> 0, lo |-> x.hi \div 2]

ZeroWord == [hi |-> 0, lo |-> 0]
OnesWord == [hi |-> W16 - 1, lo |-> W16 - 1]

(* ------------------- createSeededRNG / Math.random -------------------- *)
\* state ^= state >>> 17 and state ^= state << 5
XorShr17(x) == Xor32(x, Shr17(x))
XorShl5(x) == Xor32(x, Shl32(x, 5))

\* one xorshift32 step (13, 17, 5) on the low 32 bits of the state
XorShift32(w) == XorShl5(XorShr17(Xor32(w, Shl32(w, 13))))

\* state / 0xFFFFFFFF at scale F (floor): the top 8 bits, and F when the
\* state is 0xFFFFFFFF
Normalize(w) == IF w = OnesWord THEN F ELSE w.hi \div (W16 \div F)

\* Math.random hands out state / 2^32, which is never 1
NormalizeNative(w) == w.hi \div (W16 \div F)

\* a seed is a JavaScript number: ovf holds the bits above bit 31
SeedIsFalsy(seed) == seed.ovf = 0 /\ seed.w = ZeroWord

\* the generator returned by createSeededRNG(seed); entropy is the value of
\* Math.floor(Math.random() * 0x7FFFFFFF) that is used when seed is falsy
createSeededRNG(seed, entropy) ==
    [kind |-> "seeded", st |-> IF SeedIsFalsy(seed) THEN entropy ELSE seed.w, n |-> 0]

nativeRNG(entropy) == [kind |-> "native", st |-> entropy, n |-> 0]

\* the generator after a call that moved the state to s2, and the value returned
RngResult(rng, s2) ==
    [rng |-> [rng EXCEPT !.st = s2, !.n = @ + 1],
     u |-> IF rng.kind = "seeded" THEN Normalize(s2) ELSE NormalizeNative(s2)]

\* one call rng()
RngCall(rng) == RngResult(rng, XorShift32(rng.st))

(* ----------------------------- gammaRandom ---------------------------- *)
SQF == 16

Hang(rng) == [hang |-> TRUE, rng |-> rng, val |-> 0]
Done(rng, val) == [hang |-> FALSE, rng |-> rng, val |-> val]

\* x = u1 * sqrt(-2 ln(s) / s), at scale F, s at scale F * F
PolarX(u1, s) == (u1 * ISqrt((-2 * LnRatio(s, F * F) * F * F) \div s)) \div SQF

\* u1 = rng(); u2 = rng(); s = u1 * u1 + u2 * u2
SecondDraw(u1, d2) == [rng |-> d2.rng, u1 |-> u1, s |-> u1 * u1 + d2.u * d2.u]
TwoDraws(rng) == Then(RngCall(rng), LAMBDA d1 : SecondDraw(d1.u, RngCall(d1.rng)))

RECURSIVE PolarPair(_)
\* s >= 1 || s === 0: draw again, else hand out x
PolarTest(d) ==
    IF d.s >= F * F \/ d.s = 0 THEN PolarPair(d.rng) ELSE Done(d.rng, PolarX(d.u1, d.s))

\* the inner do-while and the transform: draw (u1, u2) until 0 < s < 1.
\* From the all-zero state every draw is 0 and the loop never exits.
PolarPair(rng) == IF rng.st = ZeroWord THEN Hang(rng) ELSE Then(TwoDraws(rng), PolarTest)

RECURSIVE GammaCandidate(_, _)
\* } while (v <= 0), which NaN <= 0 leaves at once
CandidateTest(cF, rng, xF, vF) ==
    IF vF # NaN /\ vF <= 0 THEN GammaCandidate(cF, rng)
    ELSE [hang |-> FALSE, rng |-> rng, x |-> xF, v |-> vF]

\* v = 1 + c * x
CandidateV(cF, xF) == IF cF = NaN THEN NaN ELSE F + ((cF * xF) \div F)

CandidateFrom(cF, p) ==
    IF p.hang THEN [hang |-> TRUE, rng |-> p.rng, x |-> 0, v |-> 0]
    ELSE CandidateTest(cF, p.rng, p.val, CandidateV(cF, p.val))

\* the outer do-while: a candidate x with v = 1 + c x
GammaCandidate(cF, rng) == Then(PolarPair(rng), LAMBDA p : CandidateFrom(cF, p))

\* u ^ (1 / k) for 0 <= u <= 1 and k > 0, at scale F
PowInv(uF, kF) == IF uF = 0 THEN 0 ELSE ExpNeg((LnRatio(uF, F) * F) \div kF)

Cube(vF) == IF vF = NaN THEN NaN ELSE (((vF * vF) \div F) * vF) \div F
Square(xF) == (xF * xF) \div F

\* d * v * theta
GammaValue(dF, v3F, theta) ==
    IF dF = NaN THEN NaN ELSE (((dF * v3F) \div F) * theta) \div F

\* u < 1 - 0.0331 x^4
Squeeze(uF, x2F) == uF < F - ((331 * Square(x2F)) \div 10000)

\* Math.log(u) < 0.5 x^2 + d (1 - v + Math.log(v)), false when d is NaN
LogTest(uF, x2F, dF, v3F) ==
    /\ dF # NaN
    /\ \/ uF = 0
       \/ LnRatio(uF, F) < (x2F \div 2) + ((dF * (F - v3F + LnRatio(v3F, F))) \div F)

RECURSIVE gammaRandom(_, _, _)
GammaAccept(kF, theta, dF, x2F, v3F, d1) ==
    IF Squeeze(d1.u, x2F) \/ LogTest(d1.u, x2F, dF, v3F)
    THEN Done(d1.rng, GammaValue(dF, v3F, theta))
    ELSE gammaRandom(kF, theta, d1.rng)

GammaFrom(kF, theta, dF, cand) ==
    IF cand.hang THEN Hang(cand.rng)
    ELSE Then(RngCall(cand.rng),
              LAMBDA d1 : GammaAccept(kF, theta, dF, Square(cand.x), Cube(cand.v), d1))

\* k >= 1 (or NaN): d = k - 1/3, c = 1 / sqrt(9 d)
GammaC(dF) == IF dF = NaN THEN NaN ELSE (F * F) \div ISqrt(9 * dF * F)

GammaMarsaglia(kF, theta, dF, rng) ==
    Then(GammaCandidate(GammaC(dF), rng),
         LAMBDA cand : GammaFrom(kF, theta, dF, cand))

\* k < 1: gammaRandom(1 + k) * Math.pow(u, 1 / k)
GammaBoostScale(g, uF, kF) ==
    IF g.hang THEN g ELSE Done(g.rng, (g.val * PowInv(uF, kF)) \div F)

GammaBoost(kF, theta, d0) ==
    Then(gammaRandom(F + kF, theta, d0.rng), LAMBDA g : GammaBoostScale(g, d0.u, kF))

gammaShape(kF, theta, rng) ==
    IF kF # NaN /\ kF < F THEN Then(RngCall(rng), LAMBDA d0 : GammaBoost(kF, theta, d0))
    ELSE GammaMarsaglia(kF, theta, IF kF = NaN THEN NaN ELSE kF - (F \div 3), rng)

\* theta = theta || 1
gammaRandom(kF, thetaF, rng) == gammaShape(kF, IF thetaF = 0 THEN F ELSE thetaF, rng)

(* ------------------------------ betaRandom ---------------------------- *)
\* g1 / (g1 + g2) at scale BQ; 0.5 when the sum is 0
BetaRatio(g1, sum, rng) ==
    IF sum = NaN THEN [hang |-> FALSE, rng |-> rng, u |-> NaN]
    ELSE IF sum = 0 THEN [hang |-> FALSE, rng |-> rng, u |-> BQ \div 2]
    ELSE [hang |-> FALSE, rng |-> rng, u |-> (g1 * BQ) \div sum]

BetaSecond(g1, g2) ==
    IF g2.hang THEN [hang |-> TRUE, rng |-> g2.rng, u |-> 0]
    ELSE BetaRatio(g1.val, IF g1.val = NaN \/ g2.val = NaN THEN NaN ELSE g1.val + g2.val,
                   g2.rng)

BetaFirst(betaF, g1) ==
    IF g1.hang THEN [hang |-> TRUE, rng |-> g1.rng, u |-> 0]
    ELSE Then(gammaRandom(betaF, F, g1.rng), LAMBDA g2 : BetaSecond(g1, g2))

betaRandom(alphaF, betaF, rng) ==
    Then(gammaRandom(alphaF, F, rng), LAMBDA g1 : BetaFirst(betaF, g1))

(* ---------------------- calcularParametrosBetaPERT -------------------- *)
\* a > m || m > b, with IEEE comparisons (false on NaN, Inf is the largest)
OutOfOrder(a, m, b) == a # NaN /\ m # NaN /\ b # NaN /\ (a > m \/ m > b)

\* alpha and beta as exact fractions over b - a
ExactShapes(a, m, b) ==
    [alphaNum |-> (b - a) + 4 * (m - a), betaNum |-> (b - a) + 4 * (b - m), den |-> b - a]
NoShapes == [alphaNum |-> 0, betaNum |-> 0, den |-> 0]

\* without the degenerate branch of lines 101-104: 0 / 0 is NaN
calcularParametrosBetaPERT_NoDegenerate(a, m, b) ==
    IF OutOfOrder(a, m, b)
    THEN [alpha |-> 0, beta |-> 0, isConstant |-> FALSE, constantValue |-> 0, error |-> TRUE,
          exact |-> NoShapes]
    ELSE IF IsFinite(a) /\ IsFinite(m) /\ IsFinite(b) /\ b - a # 0
    THEN [alpha |-> F + ((4 * (m - a) * F) \div (b - a)),
          beta |-> F + ((4 * (b - m) * F) \div (b - a)),
          isConstant |-> FALSE, constantValue |-> 0, error |-> FALSE,
          exact |-> ExactShapes(a, m, b)]
    ELSE [alpha |-> IF IsFinite(a) /\ IsFinite(m) /\ b = Inf THEN F ELSE NaN,
          beta |-> NaN, isConstant |-> FALSE, constantValue |-> 0, error |-> FALSE,
          exact |-> NoShapes]

\* alpha and beta computed from the wrong ends of the range
calcularParametrosBetaPERT_Swapped(a, m, b) ==
    IF IsFinite(a) /\ IsFinite(b) /\ b - a = 0
    THEN [alpha |-> 0, beta |-> 0, isConstant |-> TRUE, constantValue |-> a, error |-> FALSE,
          exact |-> NoShapes]
    ELSE IF OutOfOrder(a, m, b)
    THEN [alpha |-> 0, beta |-> 0, isConstant |-> FALSE, constantValue |-> 0, error |-> TRUE,
          exact |-> NoShapes]
    ELSE IF IsFinite(a) /\ IsFinite(m) /\ IsFinite(b)
    THEN [alpha |-> F + ((4 * (b - m) * F) \div (b - a)),
          beta |-> F + ((4 * (m - a) * F) \div (b - a)),
          isConstant |-> FALSE, constantValue |-> 0, error |-> FALSE,
          exact |-> [alphaNum |-> ExactShapes(a, m, b).betaNum,
                     betaNum |-> ExactShapes(a, m, b).alphaNum,
                     den |-> b - a]]
    ELSE [alpha |-> IF IsFinite(a) /\ IsFinite(m) /\ b = Inf THEN F ELSE NaN,
          beta |-> NaN, isConstant |-> FALSE, constantValue |-> 0, error |-> FALSE,
          exact |-> NoShapes]

\* alpha and beta are held at scale F (rounded down) for the sampler and as
\* exact fractions in the field exact
calcularParametrosBetaPERT(a, m, b) ==
    IF IsFinite(a) /\ IsFinite(b) /\ b - a = 0
    THEN [alpha |-> 0, beta |-> 0, isConstant |-> TRUE, constantValue |-> a, error |-> FALSE,
          exact |-> NoShapes]
    ELSE IF OutOfOrder(a, m, b)
    THEN [alpha |-> 0, beta |-> 0, isConstant |-> FALSE, constantValue |-> 0, error |-> TRUE,
          exact |-> NoShapes]
    ELSE IF IsFinite(a) /\ IsFinite(m) /\ IsFinite(b)
    THEN [alpha |-> F + ((4 * (m - a) * F) \div (b - a)),
          beta |-> F + ((4 * (b - m) * F) \div (b - a)),
          isConstant |-> FALSE, constantValue |-> 0, error |-> FALSE,
          exact |-> ExactShapes(a, m, b)]
    ELSE \* b - a is Infinity or NaN: x / Infinity = 0, Infinity / Infinity = NaN
         [alpha |-> IF IsFinite(a) /\ IsFinite(m) /\ b = Inf THEN F ELSE NaN,
          beta |-> NaN, isConstant |-> FALSE, constantValue |-> 0, error |-> FALSE,
          exact |-> NoShapes]

(* ------------------------------ percentile ---------------------------- *)
\* percentile works on IEEE-754 doubles.  A double x with 0 <= x < 16 that is
\* a multiple of 2^-60 is held exactly as four 16-bit limbs <<x3, x2, x1, x0>>,
\* x = (x3 2^48 + x2 2^32 + x1 2^16 + x0) / 2^60; every operation computes the
\* exact value and rounds it to 53 significant bits, ties to even.
PD == 100

DblZero == <<0, 0, 0, 0>>
DblOne == <<4096, 0, 0, 0>>
DblFromInt(v) == <<4096 * v, 0, 0, 0>>

\* the doubles nearest to 0.05, 0.5 and 0.95
DblOfLevel(pn) ==
    IF pn = 5 THEN <<204, 52428, 52428, 52432>>
    ELSE IF pn = 50 THEN <<2048, 0, 0, 0>>
    ELSE <<3891, 13107, 13107, 13056>>

\* limb-wise sum and difference (x >= y) with carry / borrow
DblAddExact(x, y) ==
    LET s0 == x[4] + y[4]
        s1 == x[3] + y[3] + (s0 \div W16)
        s2 == x[2] + y[2] + (s1 \div W16)
        s3 == x[1] + y[1] + (s2 \div W16)
    IN <<s3, s2 % W16, s1 % W16, s0 % W16>>

DblSubExact(x, y) ==
    LET d0 == x[4] - y[4]
        d1 == x[3] - y[3] - (IF d0 < 0 THEN 1 ELSE 0)
        d2 == x[2] - y[2] - (IF d1 < 0 THEN 1 ELSE 0)
        d3 == x[1] - y[1] - (IF d2 < 0 THEN 1 ELSE 0)
    IN <<d3, d2 % W16, d1 % W16, d0 % W16>>

\* the exact product of x by a small non-negative integer
DblTimesExact(x, k) ==
    LET m0 == x[4] * k
        m1 == x[3] * k + (m0 \div W16)
        m2 == x[2] * k + (m1 \div W16)
        m3 == x[1] * k + (m2 \div W16)
    IN <<m3, m2 % W16, m1 % W16, m0 % W16>>

DblLess(x, y) ==
    \E k \in 1..4 : x[k] < y[k] /\ \A h \in 1..(k - 1) : x[h] = y[h]

DblLeq(x, y) == x = y \/ DblLess(x, y)

BitLength(w) == CHOOSE n \in 0..16 : w < 2 ^ n /\ (n = 0 \/ w >= 2 ^ (n - 1))

\* index of the leading bit of x # 0, bit 0 being the lowest bit of x0
DblLeadingBit(x) ==
    LET k == CHOOSE h \in 1..4 : x[h] # 0 /\ \A g \in 1..(h - 1) : x[g] = 0
    IN 16 * (4 - k) + BitLength(x[k]) - 1

\* round to nearest, ties to even, keeping 53 bits below the leading one
DblRoundAt(x, d) ==
    LET unit == 2 ^ d
        rest == x[4] % unit
        odd == (x[4] \div unit) % 2 = 1
        down == <<x[1], x[2], x[3], x[4] - rest>>
    IN IF 2 * rest > unit \/ (2 * rest = unit /\ odd)
       THEN DblAddExact(down, <<0, 0, 0, unit>>)
       ELSE down

DblRound(x) ==
    IF x = DblZero \/ DblLeadingBit(x) <= 52 THEN x
    ELSE DblRoundAt(x, DblLeadingBit(x) - 52)

DblFloor(x) == x[1] \div 4096
DblIsInteger(x) == x = DblFromInt(DblFloor(x))

\* sortedArray[lower] * (1 - weight) + sortedArray[upper] * weight
Interpolate(lo, hi, weight) ==
    DblRound(DblAddExact(DblRound(DblTimesExact(DblRound(DblSubExact(DblOne, weight)), lo)),
                         DblRound(DblTimesExact(weight, hi))))

PercentileAt(sortedArray, index) ==
    IF DblIsInteger(index) THEN DblFromInt(sortedArray[DblFloor(index) + 1])
    ELSE Interpolate(sortedArray[DblFloor(index) + 1], sortedArray[DblFloor(index) + 2],
                     DblSubExact(index, DblFromInt(DblFloor(index))))

\* percentile(sortedArray, p) with p = pn / PD, over a series of integers
percentile(sortedArray, pn) ==
    IF Len(sortedArray) = 0 THEN DblZero
    ELSE IF pn <= 0 THEN DblFromInt(sortedArray[1])
    ELSE IF pn >= PD THEN DblFromInt(sortedArray[Len(sortedArray)])
    ELSE Then(DblRound(DblTimesExact(DblOfLevel(pn), Len(sortedArray) - 1)),
              LAMBDA index : PercentileAt(sortedArray, index))

(* ----------------------------- getStatistics -------------------------- *)
RECURSIVE InsertSorted(_, _)
InsertSorted(x, t) ==
    IF t = <<>> \/ x < Head(t) THEN <<x>> \o t
    ELSE <<Head(t)>> \o InsertSorted(x, Tail(t))

RECURSIVE SortAsc(_)
\* [...results].sort((a, b) => a - b): a sorted copy (stable)
SortAsc(seq) ==
    IF seq = <<>> THEN <<>>
    ELSE InsertSorted(seq[Len(seq)], SortAsc(SubSeq(seq, 1, Len(seq) - 1)))

RECURSIVE SumSeq(_)
SumSeq(seq) == IF seq = <<>> THEN 0 ELSE Head(seq) + SumSeq(Tail(seq))

\* Math.round(val * 100), val at scale sc: the histogram key in hundredths
RoundKey(x, sc) == (2 * 100 * x + sc) \div (2 * sc)

\* Object.entries lists integer-like keys first, in ascending numeric order,
\* then every other key in insertion order
IsIndexKey(k) == k >= 0 /\ k % 100 = 0

RECURSIVE DistinctInOrder(_, _)
DistinctInOrder(seq, seen) ==
    IF seq = <<>> THEN <<>>
    ELSE IF Head(seq) \in seen THEN DistinctInOrder(Tail(seq), seen)
    ELSE <<Head(seq)>> \o DistinctInOrder(Tail(seq), seen \cup {Head(seq)})

HistogramEntries(keys) ==
    LET distinct == DistinctInOrder(keys, {})
        Freq(k) == Cardinality({idx \in 1..Len(keys) : keys[idx] = k})
        ordered == SortAsc(SelectSeq(distinct, IsIndexKey)) \o
                   SelectSeq(distinct, LAMBDA k : ~IsIndexKey(k))
    IN [idx \in 1..Len(ordered) |-> <<ordered[idx], Freq(ordered[idx])>>]

RECURSIVE ModeScan(_, _, _)
ModeScan(entries, mode, maxFreq) ==
    IF entries = <<>> THEN mode
    ELSE IF Head(entries)[2] > maxFreq
    THEN ModeScan(Tail(entries), Head(entries)[1], Head(entries)[2])
    ELSE ModeScan(Tail(entries), mode, maxFreq)

\* Math.pow(z, e) for a fixed-point z (scale F) and a small integer e
RECURSIVE PowF(_, _)
PowF(zF, e) == IF e = 0 THEN F ELSE (PowF(zF, e - 1) * zF) \div F

\* the index Math.floor(n * 0.05) / Math.floor(n * 0.95), 0-based
FloorRank(n, pn) == (n * pn) \div PD

\* The statistics record.  Scales (sc is the scale of the series):
\*   min, max, percentile5, percentile95 : sc     median, percentile50 : 2 sc
\*   mean : n sc       mode : 100       sd, ic90_halfWidth : 16 n sc
\*   skewness, kurtosis : F (NaN when sd = 0 and n > 1)
statisticsOf(results, sorted, sc) ==
    LET n == Len(results)
        sum == SumSeq(results)
        median == IF n % 2 = 0 THEN sorted[n \div 2] + sorted[(n \div 2) + 1]
                  ELSE 2 * sorted[(n \div 2) + 1]
        keys == [idx \in 1..n |-> RoundKey(results[idx], sc)]
        mode == ModeScan(HistogramEntries(keys), (100 * sum) \div (n * sc), 0)
        varN == SumSeq([idx \in 1..n |-> (n * results[idx] - sum) * (n * results[idx] - sum)]) \div n
        sd == ISqrt(SQF * SQF * varN)
        Z(idx) == (SQF * F * (n * results[idx] - sum)) \div sd
        skewness == IF n > 1
                    THEN IF sd = 0 THEN NaN
                         ELSE SumSeq([idx \in 1..n |-> PowF(Z(idx), 3)]) \div n
                    ELSE 0
        kurtosis == IF n > 1
                    THEN IF sd = 0 THEN NaN
                         ELSE (SumSeq([idx \in 1..n |-> PowF(Z(idx), 4)]) \div n) - 3 * F
                    ELSE 0
    IN [min |-> sorted[1], max |-> sorted[n], mean |-> sum, median |-> median,
        mode |-> mode, sd |-> sd, skewness |-> skewness, kurtosis |-> kurtosis,
        percentile5 |-> sorted[FloorRank(n, 5) + 1], percentile50 |-> median,
        percentile95 |-> sorted[FloorRank(n, 95) + 1],
        ic90_halfWidth |-> (1645 * sd * SQF) \div (1000 * ISqrt(SQF * SQF * n))]

\* results.sort((a, b) => a - b): the caller's array sorted in place
sortedCopy_InPlace(results) == [results |-> SortAsc(results), sorted |-> SortAsc(results)]

\* const sorted = [...results].sort((a, b) => a - b): the caller's array as
\* the statement leaves it, and the sorted copy
sortedCopy(results) == [results |-> results, sorted |-> SortAsc(results)]

StatisticsFrom(c, sc) ==
    [error |-> FALSE, stats |-> statisticsOf(c.results, c.sorted, sc), results |-> c.results]

\* !results || results.length === 0
NoSeries(results) == results = <<Nullish>> \/ Len(results) = 0

\* the guard of lines 124-126 left out: every field is read off an empty
\* array and comes out undefined or NaN
getStatistics_NoGuard(results, sc) ==
    IF NoSeries(results)
    THEN [error |-> FALSE, results |-> results,
          stats |-> [min |-> NaN, max |-> NaN, mean |-> NaN, median |-> NaN, mode |-> NaN,
                     sd |-> NaN, skewness |-> 0, kurtosis |-> 0, percentile5 |-> NaN,
                     percentile50 |-> NaN, percentile95 |-> NaN, ic90_halfWidth |-> NaN]]
    ELSE Then(sortedCopy(results), LAMBDA c : StatisticsFrom(c, sc))

\* getStatistics(results): throws on an empty or missing series, else the
\* record; the field results is the caller's array as the call leaves it
getStatistics(results, sc) ==
    IF NoSeries(results) THEN [error |-> TRUE, stats |-> <<>>, results |-> results]
    ELSE Then(sortedCopy(results), LAMBDA c : StatisticsFrom(c, sc))

(* =========================== runMonteCarlo ============================ *)
VARIABLES
    iterations,    \* argument: [whole, half], the number whole + (half ? 0.5 : 0)
    items,         \* argument: sequence of [a, m, b]
    options,       \* argument: [hasSeed, seed, perItemSamples, progressCallback]
    pc,            \* position of the call: start, ready, loop, post, done, failed, hung, idle
    locals,        \* validatedItems, parametrosPERT, sumaMinimos, sumaMaximos,
                   \* progressInterval, lastProgressUpdate, i, j, total
    rng,           \* the random source of the run
    results,       \* new Array(iterations), Hole where nothing was assigned
    perItemSamples,\* one row per item, or <<>> when not requested
    progressLog,   \* the calls made to options.progressCallback
    outcome,       \* what the call produced: the resolved value or the error
    firstRun,      \* the arguments' options and the outcome of the previous call
    series,        \* an array a client hands to getStatistics and percentile
    statCalls,     \* the getStatistics calls made on series, in order
    pctCalls,      \* the percentile calls made on the sorted series, in order
    tornado,       \* one call of calcularContribucionVarianza: arguments and outcome
    pert,          \* one triple handed to calcularParametrosBetaPERT and calcularPERT
    emitted,       \* the values a generator of createSeededRNG has handed out
    polar,         \* a sweep of the polar transform over pairs of uniforms
    loadedData,    \* app.js: the rows of the loaded file, each with its pert
    totalsData,    \* window.totalsData: the sums of the totals row and the rows summed
    runSimulationBtn, \* the run button: disabled and textContent
    pending,       \* the ejecutarSimulacion call waiting at its await
    mcArgs,        \* the arguments of the last runMonteCarlo call the page made
    currentSimulationResult, \* the result the page holds, or none
    currentLeftX,  \* the module-level cut: x, and window.currentLeftX as w
    timers,        \* the setTimeout callbacks not yet run, in order
    frames,        \* the requestAnimationFrame callbacks not yet run, in order
    histogramChart,\* the chart drawn: the series, its statistics and the bin counts
    interactivity, \* the mouse listeners and window.onLeftCutChange with what they close over
    isDraggingLeft \* the left line is being dragged

statVars == <<series, statCalls, pctCalls>>
pageVars == <<loadedData, totalsData, runSimulationBtn, pending, mcArgs,
              currentSimulationResult, currentLeftX, timers, frames, histogramChart,
              interactivity, isDraggingLeft>>
restVars == <<polar, pageVars>>
pureVars == <<tornado, pert, emitted, restVars>>
runVars == <<iterations, items, options, pc, locals, rng, results, perItemSamples,
             progressLog, outcome, firstRun>>

W(h, l) == [hi |-> h, lo |-> l]
Item(a, m, b) == [a |-> a, m |-> m, b |-> b]

NoRng == [kind |-> "none", st |-> ZeroWord, n |-> 0]
NoLocals == [validatedItems |-> <<>>, parametrosPERT |-> <<>>, sumaMinimos |-> 0,
             sumaMaximos |-> 0, progressInterval |-> 0, lastProgressUpdate |-> 0,
             i |-> 0, j |-> 0, total |-> 0, warned |-> FALSE]
NoOutcome == [kind |-> "none"]

\* argument values explored
IterationInputs ==
    {[whole |-> -1, half |-> FALSE], [whole |-> 0, half |-> FALSE], [whole |-> 1, half |-> TRUE]}
    \cup {[whole |-> k, half |-> FALSE] : k \in 1..MaxIter}

ItemA == Item(1, 2, 3)
ItemB == Item(0, 1, 4)
ItemSkew == Item(2, 2, 4)
ItemFive == Item(5, 5, 5)
ItemTwo == Item(2, 2, 2)
ItemBadOrder == Item(10, 20, 15)
ItemNaN == Item(1, NaN, 3)
ItemInf == Item(1, 2, Inf)
ItemText == Item(TxtBase + 1, 2, 3)

ItemLists ==
    { <<>>, <<ItemA>>, <<ItemFive>>, <<ItemA, ItemB>>, <<ItemTwo, ItemSkew>>,
      <<ItemB, ItemTwo>>, <<ItemBadOrder>>, <<ItemA, ItemBadOrder>>,
      <<ItemA, ItemNaN>>, <<ItemNaN, ItemA>>, <<ItemInf>>, <<ItemA, ItemInf>>,
      <<ItemA, ItemText>> }

Seed(ovf, h, l) == [ovf |-> ovf, w |-> W(h, l)]
SeedInputs == { Seed(0, 0, 0), Seed(0, 0, 12345), Seed(0, 4660, 22136), Seed(1, 0, 0) }

\* values Math.floor(Math.random() * 0x7FFFFFFF) and the platform generator
\* may start from
EntropyStates == { W(2989, 61453), W(17767, 9158) }

OptionInputs ==
    [hasSeed : BOOLEAN, seed : SeedInputs, perItemSamples : BOOLEAN, progressCallback : BOOLEAN]

\* parseFloat(v): a number is itself, a string gives its longest numeric prefix
parseFloat(v) == IF v >= TxtBase THEN v - TxtBase ELSE v

\* lines 218-220: the item as the validation reads it
ParsedItem(item) == Item(parseFloat(item.a), parseFloat(item.m), parseFloat(item.b))
ParsedItems(its) == [k \in 1..Len(its) |-> ParsedItem(its[k])]

\* Number.isInteger(iterations) && iterations > 0
IterationsOk(it) == ~it.half /\ it.whole > 0

\* isNaN(a) || isNaN(m) || isNaN(b), then a > m || m > b
ItemOk(item) ==
    /\ ~(IsNaN(item.a) \/ IsNaN(item.m) \/ IsNaN(item.b))
    /\ ~OutOfOrder(item.a, item.m, item.b)

\* items.map(validate): throws at the first item that fails
ItemsOk(its) == \A k \in 1..Len(its) : ItemOk(its[k])

\* reduce((sum, item) => sum + item.x, 0) over numbers that may be Infinity
SumField(vals) ==
    IF \E k \in 1..Len(vals) : vals[k] = Inf THEN Inf ELSE SumSeq(vals)

\* the interval without its minimum of 100 iterations
progressIntervalOf_NoMinimum(n) == IF n > 2000 THEN n \div 100 ELSE n

\* line 256: iterations > 2000 ? Math.max(100, Math.floor(iterations / 100)) : iterations
progressIntervalOf(n) == IF n > 2000 THEN Max2(100, n \div 100) ELSE n

\* the condition of line 295 without its final-iteration clause
ProgressDue_IntervalOnly(i, last, interval, n) == i - last >= interval

\* line 295: i - lastProgressUpdate >= progressInterval || i === iterations - 1
ProgressDue(i, last, interval, n) == i - last >= interval \/ i = n - 1

\* the loop left one iteration short
NextPosition_StopsEarly(i, n) == IF i + 2 < n THEN "loop" ELSE "post"

\* line 260: i++ and the test i < iterations
NextPosition(i, n) == IF i + 1 < n THEN "loop" ELSE "post"

\* lines 296-297: the arguments of progressCallback, the percentage in hundredths
ProgressArgs(i, n) ==
    [percent |-> ((i + 1) * 100 * 100) \div n, completed |-> i + 1, total |-> n]

Validate ==
    /\ pc = "start"
    /\ IF ~IterationsOk(iterations)
       THEN /\ pc' = "failed"
            /\ outcome' = [kind |-> "error", error |-> "iterations"]
            /\ UNCHANGED locals
       ELSE IF Len(items) = 0
       THEN /\ pc' = "failed"
            /\ outcome' = [kind |-> "error", error |-> "empty"]
            /\ UNCHANGED locals
       ELSE IF ~ItemsOk(ParsedItems(items))
       THEN /\ pc' = "failed"
            /\ outcome' = [kind |-> "error", error |-> "item"]
            /\ UNCHANGED locals
       ELSE LET parsed == ParsedItems(items)
                params == [k \in 1..Len(parsed) |->
                              calcularParametrosBetaPERT(parsed[k].a, parsed[k].m, parsed[k].b)]
            IN IF \E k \in 1..Len(parsed) : params[k].error
               THEN /\ pc' = "failed"
                    /\ outcome' = [kind |-> "error", error |-> "pert"]
                    /\ UNCHANGED locals
               ELSE /\ pc' = "ready"
                    /\ locals' = [locals EXCEPT
                          !.validatedItems = parsed,
                          !.parametrosPERT = params,
                          !.sumaMinimos = SumField([k \in 1..Len(parsed) |-> parsed[k].a]),
                          !.sumaMaximos = SumField([k \in 1..Len(parsed) |-> parsed[k].b])]
                    /\ UNCHANGED outcome
    /\ UNCHANGED <<iterations, items, options, rng, results, perItemSamples,
                   progressLog, firstRun>>
    /\ UNCHANGED statVars
    /\ UNCHANGED pureVars

\* lines 243-257: the random source, the result arrays, the progress set-up
Setup ==
    /\ pc = "ready"
    /\ \E entropy \in EntropyStates :
          rng' = IF options.hasSeed THEN createSeededRNG(options.seed, entropy)
                 ELSE nativeRNG(entropy)
    /\ results' = [k \in 1..iterations.whole |-> Hole]
    /\ perItemSamples' = IF options.perItemSamples
                         THEN [r \in 1..Len(locals.validatedItems) |->
                                  [k \in 1..iterations.whole |-> Hole]]
                         ELSE <<>>
    /\ locals' = [locals EXCEPT !.progressInterval = progressIntervalOf(iterations.whole),
                                !.lastProgressUpdate = 0, !.i = 0, !.j = 0, !.total = 0]
    /\ pc' = "loop"
    /\ UNCHANGED <<iterations, items, options, progressLog, outcome, firstRun>>
    /\ UNCHANGED statVars
    /\ UNCHANGED pureVars

\* x + y on numbers that may be NaN
AddNum(x, y) == IF x = NaN \/ y = NaN THEN NaN ELSE x + y

\* (param.b - param.a) * u: the offset param.a is lost, and nothing is clamped
sampleOf_NoOffset(param, a, b, u) ==
    IF u = NaN THEN NaN
    ELSE IF b = Inf THEN (IF u = 0 THEN NaN ELSE Inf)
    ELSE (b - a) * u

\* param.a + (param.b - param.a) * u at scale BQ, followed by the clamp
sampleOf(param, a, b, u) ==
    LET raw == IF u = NaN THEN NaN
               ELSE IF b = Inf THEN (IF u = 0 THEN NaN ELSE Inf)
               ELSE BQ * a + (b - a) * u
    IN IF raw # NaN /\ raw # Inf /\ b # Inf /\ (raw < BQ * a \/ raw > BQ * b)
       THEN Max2(BQ * a, Min2(BQ * b, raw))
       ELSE IF raw = Inf /\ b # Inf THEN BQ * b
       ELSE raw

\* the sample of item j: the constant, or the rescaled and clamped Beta draw
SampleDraw(param, item, draw) ==
    IF draw.hang THEN draw
    ELSE [hang |-> FALSE, rng |-> draw.rng, u |-> sampleOf(param, item.a, item.b, draw.u)]

\* a constant item that takes (and drops) one value of the stream
DrawSample_ConstantDraws(param, item, r) ==
    IF param.isConstant
    THEN [hang |-> FALSE, rng |-> RngCall(r).rng, u |-> BQ * param.constantValue]
    ELSE Then(betaRandom(param.alpha, param.beta, r), LAMBDA draw : SampleDraw(param, item, draw))

DrawSample(param, item, r) ==
    IF param.isConstant THEN [hang |-> FALSE, rng |-> r, u |-> BQ * param.constantValue]
    ELSE Then(betaRandom(param.alpha, param.beta, r), LAMBDA draw : SampleDraw(param, item, draw))

\* perItemSamples[j][i] = total, the running total in place of the sample
StoreSample_RunningTotal(drawn) ==
    IF drawn.hang
    THEN /\ pc' = "hung"
         /\ rng' = drawn.rng
         /\ UNCHANGED <<locals, perItemSamples>>
    ELSE /\ pc' = "loop"
         /\ rng' = drawn.rng
         /\ locals' = [locals EXCEPT !.total = AddNum(@, drawn.u), !.j = @ + 1]
         /\ perItemSamples' =
               IF perItemSamples # <<>>
               THEN [perItemSamples EXCEPT ![locals.j + 1][locals.i + 1] =
                                               AddNum(locals.total, drawn.u)]
               ELSE perItemSamples

\* capturing a per-item sample takes one more value from the stream
StoreSample_CaptureDraws(drawn) ==
    IF drawn.hang
    THEN /\ pc' = "hung"
         /\ rng' = drawn.rng
         /\ UNCHANGED <<locals, perItemSamples>>
    ELSE /\ pc' = "loop"
         /\ rng' = IF perItemSamples # <<>> THEN RngCall(drawn.rng).rng ELSE drawn.rng
         /\ locals' = [locals EXCEPT !.total = AddNum(@, drawn.u), !.j = @ + 1]
         /\ perItemSamples' =
               IF perItemSamples # <<>>
               THEN [perItemSamples EXCEPT ![locals.j + 1][locals.i + 1] = drawn.u]
               ELSE perItemSamples

\* total += sample; perItemSamples[j][i] = sample
StoreSample(drawn) ==
    IF drawn.hang
    THEN /\ pc' = "hung"
         /\ rng' = drawn.rng
         /\ UNCHANGED <<locals, perItemSamples>>
    ELSE /\ pc' = "loop"
         /\ rng' = drawn.rng
         /\ locals' = [locals EXCEPT !.total = AddNum(@, drawn.u), !.j = @ + 1]
         /\ perItemSamples' =
               IF perItemSamples # <<>>
               THEN [perItemSamples EXCEPT ![locals.j + 1][locals.i + 1] = drawn.u]
               ELSE perItemSamples

\* one pass of the inner loop body (lines 265-289) for item j of iteration i
SampleItem ==
    /\ pc = "loop"
    /\ locals.j < Len(locals.validatedItems)
    /\ StoreSample(DrawSample(locals.parametrosPERT[locals.j + 1],
                              locals.validatedItems[locals.j + 1], rng))
    /\ UNCHANGED <<iterations, items, options, results, progressLog, outcome, firstRun>>
    /\ UNCHANGED statVars
    /\ UNCHANGED pureVars

\* lines 292-299 and the loop header: store the total, report progress, i++
EndIteration ==
    /\ pc = "loop"
    /\ locals.j = Len(locals.validatedItems)
    /\ results' = [results EXCEPT ![locals.i + 1] = locals.total]
    /\ LET n == iterations.whole
           report == options.progressCallback /\
                     ProgressDue(locals.i, locals.lastProgressUpdate,
                                 locals.progressInterval, n)
       IN /\ progressLog' =
                IF report THEN Append(progressLog, ProgressArgs(locals.i, n))
                ELSE progressLog
          /\ locals' = [locals EXCEPT
                !.lastProgressUpdate = IF report THEN locals.i ELSE @,
                !.i = @ + 1, !.j = 0, !.total = 0]
          /\ pc' = NextPosition(locals.i, n)
    /\ UNCHANGED <<iterations, items, options, rng, perItemSamples, outcome, firstRun>>
    /\ UNCHANGED statVars
    /\ UNCHANGED pureVars

HasNaN(res) == \E k \in 1..Len(res) : IsNaN(res[k])

\* Math.min(...results) / Math.max(...results): NaN as soon as one entry is
MinOf(res) == IF HasNaN(res) THEN NaN ELSE CHOOSE x \in {res[k] : k \in 1..Len(res)} :
                                              \A k \in 1..Len(res) : x <= res[k]
MaxOf(res) == IF HasNaN(res) THEN NaN ELSE CHOOSE x \in {res[k] : k \in 1..Len(res)} :
                                              \A k \in 1..Len(res) : x >= res[k]

\* minResult < sumaMinimos - 1e-10 || maxResult > sumaMaximos + 1e-10
OutsideExpectedRange(res, sumaMinimos, sumaMaximos) ==
    \/ (MinOf(res) # NaN /\ sumaMinimos # Inf /\ MinOf(res) < BQ * sumaMinimos)
    \/ (MaxOf(res) # NaN /\ sumaMaximos # Inf /\ MaxOf(res) > BQ * sumaMaximos)

\* a returned object that always carries the perItemSamples field
Resultado_AlwaysAttached(st, per) ==
    [kind |-> "resultado", results |-> st.results, stats |-> st.stats,
     hasPerItemSamples |-> TRUE, perItemSamples |-> per]

\* the object returned: results, stats, and perItemSamples when captured
Resultado(st, per) ==
    [kind |-> "resultado", results |-> st.results, stats |-> st.stats,
     hasPerItemSamples |-> per # <<>>, perItemSamples |-> per]

\* a conclusion without the check of lines 311-314
Conclude_NoNaNCheck(st) ==
    /\ pc' = "done"
    /\ outcome' = Resultado(st, perItemSamples)
    /\ results' = st.results

\* lines 310-331: the NaN check, the statistics, the returned object
Conclude(st) ==
    IF HasNaN(results)
    THEN /\ pc' = "failed"
         /\ outcome' = [kind |-> "error", error |-> "nan"]
         /\ UNCHANGED results
    ELSE /\ pc' = "done"
         /\ outcome' = Resultado(st, perItemSamples)
         /\ results' = st.results

\* lines 302-331: range warning, NaN check, statistics, the returned object
Finish ==
    /\ pc = "post"
    /\ locals' = [locals EXCEPT
          !.warned = OutsideExpectedRange(results, locals.sumaMinimos, locals.sumaMaximos)]
    /\ Conclude(IF HasNaN(results) THEN [results |-> results, stats |-> <<>>]
                ELSE getStatistics(results, BQ))
    /\ UNCHANGED <<iterations, items, options, rng, perItemSamples,
                   progressLog, firstRun>>
    /\ UNCHANGED statVars
    /\ UNCHANGED pureVars

\* the caller runs the simulation again with the same iterations, items and
\* seed; perItemSamples and progressCallback may differ
RunAgain ==
    /\ pc \in {"done", "failed"}
    /\ firstRun.kind = "none"
    /\ firstRun' = [kind |-> "ran", options |-> options, outcome |-> outcome,
                    progressLog |-> progressLog, draws |-> rng.n]
    /\ \E per \in BOOLEAN, cb \in BOOLEAN :
          options' = [options EXCEPT !.perItemSamples = per, !.progressCallback = cb]
    /\ pc' = "start"
    /\ locals' = NoLocals
    /\ rng' = NoRng
    /\ results' = <<>>
    /\ perItemSamples' = <<>>
    /\ progressLog' = <<>>
    /\ outcome' = NoOutcome
    /\ UNCHANGED <<iterations, items>>
    /\ UNCHANGED statVars
    /\ UNCHANGED pureVars

vars == <<iterations, items, options, pc, locals, rng, results, perItemSamples,
          progressLog, outcome, firstRun, series, statCalls, pctCalls,
          tornado, pert, emitted, polar, loadedData, totalsData, runSimulationBtn, pending,
          mcArgs, currentSimulationResult, currentLeftX, timers, frames, histogramChart,
          interactivity, isDraggingLeft>>

NoRun ==
    /\ locals = NoLocals
    /\ rng = NoRng
    /\ results = <<>>
    /\ perItemSamples = <<>>
    /\ progressLog = <<>>
    /\ outcome = NoOutcome
    /\ firstRun = [kind |-> "none"]

NoStats ==
    /\ series = <<>>
    /\ statCalls = <<>>
    /\ pctCalls = <<>>

NoTornado == [totalSamples |-> <<>>, perItemSamples |-> <<>>, called |-> FALSE,
              error |-> FALSE, contributions |-> <<>>]
NoPert == [a |-> 0, m |-> 0, b |-> 0, called |-> FALSE, params |-> <<>>, value |-> <<>>]

NoPolar == [k |-> 0, at |-> 0, called |-> 0, rejected |-> 0, negative |-> 0, positive |-> 0,
            below |-> 0, above |-> 0]

\* the page as its scripts leave it when they have loaded
LabelRun == "Ejecutar Simulación"
NoResult == [kind |-> "null"]
NoChart == [exists |-> FALSE, res |-> <<>>, stats |-> <<>>, bins |-> Nullish, counts |-> <<>>]
NoInteractivity == [listening |-> FALSE, exported |-> FALSE, res |-> <<>>, stats |-> <<>>]
NoTotals == [set |-> FALSE, sumMin |-> 0, sumProbable |-> 0, sumMax |-> 0, rows |-> {}]

NoPage ==
    /\ loadedData = <<>>
    /\ totalsData = NoTotals
    /\ runSimulationBtn = [disabled |-> FALSE, textContent |-> LabelRun]
    /\ pending = [kind |-> "none"]
    /\ mcArgs = [called |-> FALSE, iterations |-> 0, items |-> <<>>]
    /\ currentSimulationResult = NoResult
    /\ currentLeftX = [x |-> Nullish, w |-> Nullish]
    /\ timers = <<>>
    /\ frames = <<>>
    /\ histogramChart = NoChart
    /\ interactivity = NoInteractivity
    /\ isDraggingLeft = FALSE

NoRest == polar = NoPolar /\ NoPage

NoPure ==
    /\ tornado = NoTornado
    /\ pert = NoPert
    /\ emitted = <<>>
    /\ NoRest

Init ==
    /\ iterations \in IterationInputs
    /\ items \in ItemLists
    /\ options \in OptionInputs
    /\ pc = "start"
    /\ NoRun
    /\ NoStats
    /\ NoPure

Next ==
    \/ Validate
    \/ Setup
    \/ SampleItem
    \/ EndIteration
    \/ Finish
    \/ RunAgain

Spec == Init /\ [][Next]_vars

\* the call is synchronous code on one thread: a step of the run that can
\* be taken is taken; calling again is the caller's choice
RunStep == Validate \/ Setup \/ SampleItem \/ EndIteration \/ Finish

\* calls that pass validation, the one whose generator is stuck at 0
\* included
InitFair ==
    /\ \E n \in 1..MaxIter : iterations = [whole |-> n, half |-> FALSE]
    /\ items \in {<<ItemA, ItemB>>, <<ItemTwo, ItemSkew>>, <<ItemFive>>, <<ItemA, ItemInf>>}
    /\ options \in OptionInputs
    /\ pc = "start"
    /\ NoRun
    /\ NoStats
    /\ NoPure

\* SampleItem can be taken exactly when the inner loop has an item left
SampleGuard == pc = "loop" /\ locals.j < Len(locals.validatedItems)

\* where SampleGuard holds no other step of the run can be taken, so a step
\* that changes the state there is a SampleItem step
SampleTaken == SampleGuard /\ vars' # vars

\* WF_vars(SampleItem), with ENABLED <<SampleItem>>_vars written as SampleGuard
\* and <<SampleItem>>_vars as SampleTaken
FairSample == []<>(~SampleGuard) \/ []<><<SampleTaken>>_vars

\* WF_vars(Finish) in the same way: Finish can be taken exactly when the loop
\* has been left, and it is then the only step of the run
FinishGuard == pc = "post"
FinishTaken == FinishGuard /\ vars' # vars
FairFinish == []<>(~FinishGuard) \/ []<><<FinishTaken>>_vars

SpecFair ==
    /\ InitFair
    /\ [][RunStep]_vars
    /\ WF_vars(Validate \/ Setup \/ EndIteration)
    /\ FairSample
    /\ FairFinish

(* ========== the same run with a degenerate item more or less ========== *)
\* seq with x put in at position p, and seq without its entry at position p
InsertAt(seq, p, x) == SubSeq(seq, 1, p - 1) \o <<x>> \o SubSeq(seq, p, Len(seq))
RemoveAt(seq, p) == SubSeq(seq, 1, p - 1) \o SubSeq(seq, p + 1, Len(seq))

\* the item lists that differ from list by one degenerate item
EditsOf(list) ==
    {[kind |-> "insert", pos |-> p, item |-> ItemFive, items |-> InsertAt(list, p, ItemFive)]
        : p \in 1..(Len(list) + 1)}
    \cup {[kind |-> "remove", pos |-> p, item |-> list[p], items |-> RemoveAt(list, p)]
             : p \in {q \in 1..Len(list) : list[q].a = list[q].b /\ Len(list) > 1}}

\* the caller runs the simulation again with the same iterations and options
\* on a list with one degenerate item put in or taken out
RunEdited ==
    /\ pc \in {"done", "failed"}
    /\ firstRun.kind = "none"
    /\ \E e \in EditsOf(items) :
          /\ firstRun' = [kind |-> "edited", options |-> options, outcome |-> outcome,
                          progressLog |-> progressLog, draws |-> rng.n,
                          edit |-> [kind |-> e.kind, pos |-> e.pos, item |-> e.item]]
          /\ items' = e.items
    /\ pc' = "start"
    /\ locals' = NoLocals
    /\ rng' = NoRng
    /\ results' = <<>>
    /\ perItemSamples' = <<>>
    /\ progressLog' = <<>>
    /\ outcome' = NoOutcome
    /\ UNCHANGED <<iterations, options>>
    /\ UNCHANGED statVars
    /\ UNCHANGED pureVars

\* seeded calls that capture the per-item samples
InitEdit ==
    /\ \E n \in 1..MaxIter : iterations = [whole |-> n, half |-> FALSE]
    /\ items \in {<<ItemA>>, <<ItemA, ItemB>>, <<ItemFive, ItemA>>, <<ItemB, ItemTwo>>,
                  <<ItemTwo, ItemSkew>>, <<ItemA, ItemTwo, ItemB>>}
    /\ options \in {o \in OptionInputs : o.hasSeed /\ o.perItemSamples}
    /\ pc = "start"
    /\ NoRun
    /\ NoStats
    /\ NoPure

NextEdit == RunStep \/ RunEdited

SpecEdit == InitEdit /\ [][NextEdit]_vars

(* ============ getStatistics and percentile as pure functions =========== *)
\* the series explored: every sequence of up to MaxLen values in 0..MaxVal
SeriesInputs == UNION {[1..n -> 0..MaxVal] : n \in 0..MaxLen} \cup {<<Nullish>>}

\* the percentile levels explored, in hundredths (p = pn / PD)
PercentileLevels == {0, 5, 50, 95, 100}

\* a client calls getStatistics(series)
CallGetStatistics ==
    /\ Len(statCalls) < 2
    /\ LET r == getStatistics(series, 1)
       IN /\ statCalls' = Append(statCalls, [arg |-> series, after |-> r.results,
                                             error |-> r.error, stats |-> r.stats])
          /\ series' = r.results
    /\ UNCHANGED pctCalls
    /\ UNCHANGED runVars
    /\ UNCHANGED pureVars

\* the sorted copy a client makes of its series, empty when it has none
SortedOrEmpty(arr) == IF NoSeries(arr) THEN <<>> ELSE SortAsc(arr)

\* a client calls percentile(sorted, p) on a sorted copy of the series
CallPercentile ==
    /\ Len(pctCalls) < 2
    /\ \E pn \in PercentileLevels :
          pctCalls' = Append(pctCalls, [p |-> pn, sorted |-> SortedOrEmpty(series),
                                       value |-> percentile(SortedOrEmpty(series), pn)])
    /\ UNCHANGED <<series, statCalls>>
    /\ UNCHANGED runVars
    /\ UNCHANGED pureVars

InitStats ==
    /\ series \in SeriesInputs
    /\ statCalls = <<>>
    /\ pctCalls = <<>>
    /\ iterations = [whole |-> 0, half |-> FALSE]
    /\ items = <<>>
    /\ options = [hasSeed |-> FALSE, seed |-> Seed(0, 0, 0), perItemSamples |-> FALSE,
                  progressCallback |-> FALSE]
    /\ pc = "idle"
    /\ NoRun
    /\ NoPure

NextStats ==
    \/ CallGetStatistics
    \/ CallPercentile

SpecStats == InitStats /\ [][NextStats]_vars

\* no runMonteCarlo call is under way
Idle ==
    /\ iterations = [whole |-> 0, half |-> FALSE]
    /\ items = <<>>
    /\ options = [hasSeed |-> FALSE, seed |-> Seed(0, 0, 0), perItemSamples |-> FALSE,
                  progressCallback |-> FALSE]
    /\ pc = "idle"
    /\ NoRun

(* ===================== calcularContribucionVarianza =================== *)
\* Sums of products are kept exactly: with n = totalSamples.length a
\* deviation x - mean is held as n x - sum (scale n), a variance or a
\* covariance as the sum of the products of such deviations (scale n^3), and
\* the percentage 100 covariance / varTotal as the fraction num / den.
\* A division by n = 0 or by varTotal = 0 is 0 / 0, that is NaN.

\* val - mean for every val of samples, mean = reduce(sum) / n
Deviations(samples, n) == [k \in 1..Len(samples) |-> n * samples[k] - SumSeq(samples)]

\* reduce((sum, k) => sum + x[k] * y[k]) / n, over the first n entries
MeanProduct(x, y, n) ==
    IF n = 0 THEN NaN ELSE SumSeq([k \in 1..n |-> x[k] * y[k]])

\* (covariance / varTotal) * 100
ContributionPct(covariance, varTotal) ==
    IF covariance = NaN \/ varTotal = NaN \/ varTotal = 0
    THEN [nan |-> TRUE, num |-> 0, den |-> 1]
    ELSE [nan |-> FALSE, num |-> 100 * covariance, den |-> varTotal]

\* the record pushed for item i (lines 1024-1042)
ContributionRecord(i, devTotal, devItem, n) ==
    [index |-> i,
     contribution |-> ContributionPct(MeanProduct(devTotal, devItem, n),
                                      MeanProduct(devTotal, devTotal, n)),
     covariance |-> MeanProduct(devTotal, devItem, n),
     variance |-> MeanProduct(devItem, devItem, n)]

\* the covariance of line 1030 replaced by the item's own variance
calcularContribucionVarianza_OwnVariance(totals, perItem) ==
    [error |-> FALSE,
     contributions |->
        [i \in 1..Len(perItem) |->
            ContributionRecord(i - 1, Deviations(perItem[i], Len(totals)),
                               Deviations(perItem[i], Len(totals)), Len(totals))]]

\* a varTotal of 0 repaired: every contribution reported as 0
calcularContribucionVarianza_ZeroRepaired(totals, perItem) ==
    [error |-> FALSE,
     contributions |->
        [i \in 1..Len(perItem) |->
            [ContributionRecord(i - 1, Deviations(totals, Len(totals)),
                                Deviations(perItem[i], Len(totals)), Len(totals))
             EXCEPT !.contribution = IF @.nan THEN [nan |-> FALSE, num |-> 0, den |-> 1] ELSE @]]]

\* calcularContribucionVarianza(totalSamples, perItemSamples): no path of the
\* function throws
calcularContribucionVarianza(totals, perItem) ==
    [error |-> FALSE,
     contributions |->
        [i \in 1..Len(perItem) |->
            ContributionRecord(i - 1, Deviations(totals, Len(totals)),
                               Deviations(perItem[i], Len(totals)), Len(totals))]]

\* the per-item series explored: one or two items, up to MaxLen iterations,
\* samples in 0..MaxSample; the totals are their element-wise sums
PerItemInputs == UNION {[1..r -> [1..n -> 0..MaxSample]] : r \in 1..2, n \in 0..MaxLen}
TotalsOf(perItem) ==
    [k \in 1..Len(perItem[1]) |-> SumSeq([i \in 1..Len(perItem) |-> perItem[i][k]])]

\* crearTornado calls calcularContribucionVarianza(totalSamples, perItemSamples)
CallContribucion ==
    /\ ~tornado.called
    /\ LET r == calcularContribucionVarianza(tornado.totalSamples, tornado.perItemSamples)
       IN tornado' = [tornado EXCEPT !.called = TRUE, !.error = r.error,
                                     !.contributions = r.contributions]
    /\ UNCHANGED <<pert, emitted>>
    /\ UNCHANGED restVars
    /\ UNCHANGED statVars
    /\ UNCHANGED runVars

InitTornado ==
    /\ \E perItem \in PerItemInputs :
          tornado = [NoTornado EXCEPT !.totalSamples = TotalsOf(perItem),
                                      !.perItemSamples = perItem]
    /\ pert = NoPert
    /\ emitted = <<>>
    /\ NoRest
    /\ NoStats
    /\ Idle

NextTornado == CallContribucion

SpecTornado == InitTornado /\ [][NextTornado]_vars

(* ================== the generator of createSeededRNG ================== *)
\* integer seeds handed to createSeededRNG: those of runMonteCarlo, small and
\* large ones, 2^33, and two that lie one and three steps before 0xFFFFFFFF
RngSeeds ==
    SeedInputs \cup { Seed(0, 0, 1), Seed(0, 0, 2), Seed(0, 1, 0), Seed(0, 0, 42), Seed(0, 32768, 0), Seed(0, 65535, 65535),
                      Seed(2, 0, 0), Seed(0, 24172, 64743), Seed(0, 2345, 30943) }

\* Math.floor(Math.random() * 0x7FFFFFFF) is 0 when Math.random() is below 2^-31
RngEntropy == EntropyStates \cup { ZeroWord }

\* rng(): the generator advances its state and hands out a value
Draw ==
    /\ rng.kind = "seeded"
    /\ Len(emitted) < MaxDraws
    /\ rng' = RngCall(rng).rng
    /\ emitted' = Append(emitted, RngCall(rng).u)
    /\ UNCHANGED <<iterations, items, options, pc, locals, results, perItemSamples,
                   progressLog, outcome, firstRun>>
    /\ UNCHANGED <<tornado, pert>>
    /\ UNCHANGED restVars
    /\ UNCHANGED statVars

InitRng ==
    /\ \E seed \in RngSeeds, entropy \in RngEntropy : rng = createSeededRNG(seed, entropy)
    /\ emitted = <<>>
    /\ tornado = NoTornado
    /\ pert = NoPert
    /\ NoRest
    /\ iterations = [whole |-> 0, half |-> FALSE]
    /\ items = <<>>
    /\ options = [hasSeed |-> FALSE, seed |-> Seed(0, 0, 0), perItemSamples |-> FALSE,
                  progressCallback |-> FALSE]
    /\ pc = "idle"
    /\ locals = NoLocals
    /\ results = <<>>
    /\ perItemSamples = <<>>
    /\ progressLog = <<>>
    /\ outcome = NoOutcome
    /\ firstRun = [kind |-> "none"]
    /\ NoStats

NextRng == Draw

SpecRng == InitRng /\ [][NextRng]_vars

(* ================== progress reporting of runMonteCarlo =============== *)
\* The checkpoints depend on the loop counter, the iteration count and the
\* presence of a callback only, never on a sample: the loop is run here with
\* the sampling of lines 261-292 left out, for iteration counts on both sides
\* of the 2000 and 10000 thresholds.
ProgressRuns == {1, 2, 3, 2000, 2001, 2100, 10000, 10099}

\* lines 255-257
ProgressSetup ==
    /\ pc = "ready"
    /\ locals' = [locals EXCEPT !.progressInterval = progressIntervalOf(iterations.whole),
                                !.lastProgressUpdate = 0, !.i = 0]
    /\ pc' = "loop"
    /\ UNCHANGED <<iterations, items, options, rng, results, perItemSamples, progressLog,
                   outcome, firstRun>>
    /\ UNCHANGED statVars
    /\ UNCHANGED pureVars

\* lines 260 and 295-299: one pass of the loop
ProgressPass ==
    /\ pc = "loop"
    /\ LET n == iterations.whole
           report == options.progressCallback /\
                     ProgressDue(locals.i, locals.lastProgressUpdate,
                                 locals.progressInterval, n)
       IN /\ progressLog' =
                IF report THEN Append(progressLog, ProgressArgs(locals.i, n))
                ELSE progressLog
          /\ locals' = [locals EXCEPT
                !.lastProgressUpdate = IF report THEN locals.i ELSE @,
                !.i = @ + 1]
          /\ pc' = NextPosition(locals.i, n)
    /\ UNCHANGED <<iterations, items, options, rng, results, perItemSamples, outcome, firstRun>>
    /\ UNCHANGED statVars
    /\ UNCHANGED pureVars

InitProgress ==
    /\ \E n \in ProgressRuns : iterations = [whole |-> n, half |-> FALSE]
    /\ items = <<ItemA>>
    /\ \E cb \in BOOLEAN :
          options = [hasSeed |-> FALSE, seed |-> Seed(0, 0, 0), perItemSamples |-> FALSE,
                     progressCallback |-> cb]
    /\ pc = "ready"
    /\ NoRun
    /\ NoStats
    /\ NoPure

NextProgress == ProgressSetup \/ ProgressPass

SpecProgress == InitProgress /\ [][NextProgress]_vars

(* ====================== calcularPERT (app.js) ========================= *)
\* the rows explored: numbers, a cell that is not a number and a cell holding
\* the text "2x"
PertValues == (0..MaxVal) \cup {NaN, TxtBase + 2}

\* (a + 4 * m + b) / 6 as an exact fraction, null when a cell does not parse
PertOf(a, m, b) ==
    IF IsNaN(a) \/ IsNaN(m) \/ IsNaN(b)
    THEN [null |-> TRUE, num |-> 0, den |-> 1]
    ELSE [null |-> FALSE, num |-> a + 4 * m + b, den |-> 6]

calcularPERT(minimo, probable, maximo) ==
    PertOf(parseFloat(minimo), parseFloat(probable), parseFloat(maximo))

\* the row is shown with calcularPERT and simulated with the parameters
\* runMonteCarlo computes from its parsed cells
CallPert ==
    /\ ~pert.called
    /\ pert' = [pert EXCEPT
          !.called = TRUE,
          !.params = calcularParametrosBetaPERT(parseFloat(pert.a), parseFloat(pert.m),
                                                parseFloat(pert.b)),
          !.value = calcularPERT(pert.a, pert.m, pert.b)]
    /\ UNCHANGED <<tornado, emitted>>
    /\ UNCHANGED restVars
    /\ UNCHANGED statVars
    /\ UNCHANGED runVars

InitPert ==
    /\ \E a \in PertValues, m \in PertValues, b \in PertValues :
          pert = [NoPert EXCEPT !.a = a, !.m = m, !.b = b]
    /\ tornado = NoTornado
    /\ emitted = <<>>
    /\ NoRest
    /\ NoStats
    /\ Idle

NextPert == CallPert

SpecPert == InitPert /\ [][NextPert]_vars

(* ============ the polar transform of gammaRandom, swept =============== *)
\* The body of the do-while of lines 43-57 is applied to every pair (u1, u2)
\* of a grid of the values rng() can return, one pair per step, for a shape
\* k >= 1; polar counts what the candidates x and v = 1 + c x looked like.
GridValue(g) == (g * F) \div PolarGrid
PolarPairs == (PolarGrid + 1) * (PolarGrid + 1)
PolarShapes == {F, 3 * F, 5 * F}

\* the candidate of the pair (u1, u2): rejected by s >= 1 || s === 0, or x and v
PolarCandidate(kF, u1, u2) ==
    IF u1 * u1 + u2 * u2 >= F * F \/ u1 * u1 + u2 * u2 = 0
    THEN [rejected |-> TRUE, x |-> 0, v |-> 0]
    ELSE [rejected |-> FALSE, x |-> PolarX(u1, u1 * u1 + u2 * u2),
          v |-> CandidateV(GammaC(kF - (F \div 3)), PolarX(u1, u1 * u1 + u2 * u2))]

Tally(p, cand) ==
    [p EXCEPT !.at = @ + 1,
              !.called = @ + 1,
              !.rejected = IF cand.rejected THEN @ + 1 ELSE @,
              !.negative = IF ~cand.rejected /\ cand.x < 0 THEN @ + 1 ELSE @,
              !.positive = IF ~cand.rejected /\ cand.x > 0 THEN @ + 1 ELSE @,
              !.below = IF ~cand.rejected /\ cand.v < F THEN @ + 1 ELSE @,
              !.above = IF ~cand.rejected /\ cand.v > F THEN @ + 1 ELSE @]

PolarSweep ==
    /\ polar.k # 0
    /\ polar.at < PolarPairs
    /\ polar' = Tally(polar, PolarCandidate(polar.k, GridValue(polar.at \div (PolarGrid + 1)),
                                            GridValue(polar.at % (PolarGrid + 1))))
    /\ UNCHANGED pageVars
    /\ UNCHANGED <<tornado, pert, emitted>>
    /\ UNCHANGED statVars
    /\ UNCHANGED runVars

InitPolar ==
    /\ \E kF \in PolarShapes : polar = [NoPolar EXCEPT !.k = kF]
    /\ NoPage
    /\ tornado = NoTornado
    /\ pert = NoPert
    /\ emitted = <<>>
    /\ NoStats
    /\ Idle

NextPolar == PolarSweep

SpecPolar == InitPolar /\ [][NextPolar]_vars

(* ================= the page: app.js and visualizations.js ================ *)
\* a row of the loaded file as mapearColumnas reads it: the ITEM cell ("" when
\* the file has none) and the three cells, NaN for a cell that does not parse
Row(label, minimo, probable, maximo) ==
    [item |-> label, minimo |-> minimo, probable |-> probable, maximo |-> maximo]

\* the files explored
DataSets ==
    { <<Row("1", 1, 2, 3), Row("2", 0, 1, 4)>>,
      <<Row("1", 5, 5, 5), Row("TOTAL", 5, 5, 5)>>,
      <<Row("", NaN, 2, 3), Row("totals", 2, 3, 5)>>,
      <<Row("1", 3, 2, 1)>>,
      <<Row("x", NaN, NaN, NaN)>> }

\* `Item ${index + 1}`
ItemLabel(index) == CASE index = 1 -> "Item 1" [] index = 2 -> "Item 2" [] OTHER -> "Item 3"

\* String(fila.item || '').toUpperCase().trim() over the labels explored
UpperTrim(label) ==
    CASE label \in {"TOTAL", "total"} -> "TOTAL"
      [] label \in {"TOTALS", "totals"} -> "TOTALS"
      [] label = "x" -> "X"
      [] label = "Item 1" -> "ITEM 1"
      [] label = "Item 2" -> "ITEM 2"
      [] label = "Item 3" -> "ITEM 3"
      [] OTHER -> label

\* procesarDatos, lines 93-109: the row kept in loadedData; row is its place
\* in the file
LoadedRow(r, index) ==
    [item |-> IF r.item = "" THEN ItemLabel(index) ELSE r.item,
     minimo |-> r.minimo, probable |-> r.probable, maximo |-> r.maximo,
     pert |-> calcularPERT(r.minimo, r.probable, r.maximo), row |-> index]

\* mostrarDatos, lines 172-175: the rows that are not a totals row
IsDataRow(fila) == UpperTrim(fila.item) \notin {"TOTAL", "TOTALS", ""}

\* calcularSumas: one column summed over the rows, a cell that is not a
\* number left out
SumColumn(cells) ==
    SumSeq([k \in 1..Len(cells) |-> IF IsNaN(parseFloat(cells[k])) THEN 0
                                     ELSE parseFloat(cells[k])])

\* mostrarDatos, lines 172-196: window.totalsData, and the rows it summed
TotalsOfRows(dataRows) ==
    [set |-> TRUE,
     sumMin |-> SumColumn([k \in 1..Len(dataRows) |-> dataRows[k].minimo]),
     sumProbable |-> SumColumn([k \in 1..Len(dataRows) |-> dataRows[k].probable]),
     sumMax |-> SumColumn([k \in 1..Len(dataRows) |-> dataRows[k].maximo]),
     rows |-> {dataRows[k].row : k \in 1..Len(dataRows)}]

\* the page handles the next event of its user once the call under way has
\* gone past its await and the animation frames that follow a drawing have run
Settled == pending.kind = "none" /\ frames = <<>>

\* procesarDatos(datos)
ProcesarDatos ==
    /\ Settled
    /\ \E datos \in DataSets :
          /\ loadedData' = [k \in 1..Len(datos) |-> LoadedRow(datos[k], k)]
          /\ totalsData' = TotalsOfRows(SelectSeq(loadedData', IsDataRow))
    /\ UNCHANGED <<runSimulationBtn, pending, mcArgs, currentSimulationResult, currentLeftX,
                   timers, frames, histogramChart, interactivity, isDraggingLeft>>
    /\ UNCHANGED <<runVars, statVars, tornado, pert, emitted, polar>>

\* prepararDatosParaSimulacion, lines 131-139: the rows with a pert, as items
HasPert(fila) == ~fila.pert.null

SimItem(fila) ==
    [a |-> parseFloat(fila.minimo), m |-> parseFloat(fila.probable),
     b |-> parseFloat(fila.maximo), id |-> fila.item, row |-> fila.row]

prepararDatosParaSimulacion(data) ==
    Then(SelectSeq(data, HasPert), LAMBDA kept : [k \in 1..Len(kept) |-> SimItem(kept[k])])

\* the text of the iterations field and of the bins field, as parseInt reads
\* them; an empty bins field gives null
UiIterations == {-1, 2, 3}
BinInputs == {Nullish, 2, -1}

\* The totals runMonteCarlo returns to the page are stood for by whole
\* numbers that keep what the page relies on: the seed is fixed (line 162),
\* so the k-th total depends on the items alone and a shorter run returns the
\* first totals of a longer one; every total lies between the sum of the
\* minima and the sum of the maxima; items with a = m = b give that sum.
TotalAt(lo, hi, k) ==
    IF hi - lo < 3 THEN lo
    ELSE CASE k = 1 -> lo + 1 [] k = 2 -> hi - 1 [] OTHER -> lo

TotalsFor(its, n) ==
    [k \in 1..n |-> TotalAt(SumSeq([q \in 1..Len(its) |-> its[q].a]),
                            SumSeq([q \in 1..Len(its) |-> its[q].b]), k)]

\* lines 208-231: runMonteCarlo rejects the call
McRejects(it, its) == it <= 0 \/ Len(its) = 0 \/ ~ItemsOk(its)

\* the label the progress callback of lines 164-166 leaves on the button
LabelProgress == "Ejecutando... 100%"
LabelRunning == "Ejecutando..."

\* ejecutarSimulacion, lines 145-167: a click on the enabled button, up to the
\* await; runMonteCarlo runs to its end inside the call
EjecutarSimulacion ==
    /\ Settled
    /\ ~runSimulationBtn.disabled
    /\ \E it \in UiIterations, nb \in BinInputs :
          IF Len(loadedData) = 0
          THEN /\ runSimulationBtn' = [disabled |-> FALSE, textContent |-> LabelRun]
               /\ UNCHANGED <<pending, mcArgs>>
          ELSE IF Len(prepararDatosParaSimulacion(loadedData)) = 0
          THEN UNCHANGED <<runSimulationBtn, pending, mcArgs>>
          ELSE /\ mcArgs' = [called |-> TRUE, iterations |-> it,
                             items |-> prepararDatosParaSimulacion(loadedData)]
               /\ IF McRejects(it, mcArgs'.items)
                  THEN /\ pending' = [kind |-> "rejected"]
                       /\ runSimulationBtn' = [disabled |-> TRUE, textContent |-> LabelRunning]
                  ELSE /\ pending' = [kind |-> "resolved",
                                       res |-> TotalsFor(mcArgs'.items, it),
                                       stats |-> getStatistics(TotalsFor(mcArgs'.items, it), 1).stats,
                                       numBins |-> nb]
                       /\ runSimulationBtn' = [disabled |-> TRUE, textContent |-> LabelProgress]
    /\ UNCHANGED <<loadedData, totalsData, currentSimulationResult, currentLeftX,
                   timers, frames, histogramChart, interactivity, isDraggingLeft>>
    /\ UNCHANGED <<runVars, statVars, tornado, pert, emitted, polar>>

\* ejecutarSimulacion, lines 169-220: the call goes on after the await, to the
\* setTimeout or into the catch
Resume ==
    /\ pending.kind # "none"
    /\ IF pending.kind = "rejected"
       THEN /\ runSimulationBtn' = [disabled |-> FALSE, textContent |-> LabelRun]
            /\ UNCHANGED <<currentSimulationResult, currentLeftX, timers>>
       ELSE /\ currentSimulationResult' = [kind |-> "resultado", res |-> pending.res,
                                           stats |-> pending.stats, bins |-> pending.numBins]
            /\ currentLeftX' = [x |-> pending.stats.percentile5,
                                w |-> pending.stats.percentile5]
            /\ timers' = Append(timers, [kind |-> "render", res |-> pending.res,
                                         stats |-> pending.stats, numBins |-> pending.numBins])
            /\ UNCHANGED runSimulationBtn
    /\ pending' = [kind |-> "none"]
    /\ UNCHANGED <<loadedData, totalsData, mcArgs, frames, histogramChart, interactivity,
                   isDraggingLeft>>
    /\ UNCHANGED <<runVars, statVars, tornado, pert, emitted, polar>>

(* ------------------------------ crearHistograma --------------------------- *)
\* Math.ceil(Math.sqrt(n))
CeilSqrt(n) == CHOOSE c \in 0..n : c * c >= n /\ (c = 0 \/ (c - 1) * (c - 1) < n)

\* line 264: numBins || Math.ceil(Math.sqrt(results.length))
BinsOf(nb, n) == IF nb = Nullish \/ nb = 0 THEN CeilSqrt(n) ELSE nb

\* every value put in the last bin
BinIndex_LastBin(value, mn, mx, bins) == bins - 1

\* lines 280-283: Math.floor((value - min) / binWidth) with binWidth =
\* (max - min) / bins, brought into 0..bins-1; NaN, which neither comparison
\* moves, when binWidth is 0
BinIndex(value, mn, mx, bins) ==
    IF mx = mn THEN NaN
    ELSE Max2(0, Min2(bins - 1, ((value - mn) * bins) \div (mx - mn)))

\* lines 271, 279-284: histogram[binIndex]++ over the results; an index that
\* is no element of the array counts nothing
BinCounts(res, mn, mx, bins) ==
    [b \in 1..bins |->
        Cardinality({k \in 1..Len(res) : BinIndex(res[k], mn, mx, bins) = b - 1})]

\* the canvas as the call finds it: in the page, or not; the section that
\* holds it has been displayed and reflowed (lines 180-183) before any call,
\* so the wait of lines 252-256 for its dimensions is not explored
CanvasStates == {"ok", "missing"}

\* line 271: new Array(bins) throws on a negative length
HistogramaThrows(res, nb, cv) == cv = "ok" /\ BinsOf(nb, Len(res)) < 0

\* crearHistograma(results, stats, numBins) called with tq the timers and fq
\* the frames the caller leaves: lines 244-300, 325, 588
CrearHistograma(res, st, nb, cv, tq, fq) ==
    IF cv = "missing" \/ HistogramaThrows(res, nb, cv)
    THEN /\ timers' = tq
         /\ frames' = fq
         /\ UNCHANGED <<histogramChart, interactivity>>
    ELSE /\ histogramChart' = [exists |-> TRUE, res |-> res, stats |-> st, bins |-> nb,
                               counts |-> BinCounts(res, st.min, st.max, BinsOf(nb, Len(res)))]
         /\ interactivity' = [interactivity EXCEPT !.listening = FALSE]
         /\ frames' = Append(fq, [stage |-> 1, res |-> res, stats |-> st])
         /\ timers' = tq

\* the setTimeout callback runs: the deferred part of ejecutarSimulacion,
\* lines 190-212
TimerFires ==
    /\ pending.kind = "none"
    /\ timers # <<>>
    /\ \E cv \in CanvasStates :
          /\ CrearHistograma(Head(timers).res, Head(timers).stats, Head(timers).numBins, cv,
                             Tail(timers), frames)
          /\ IF ~HistogramaThrows(Head(timers).res, Head(timers).numBins, cv)
             THEN runSimulationBtn' = [disabled |-> FALSE, textContent |-> LabelRun]
             ELSE UNCHANGED runSimulationBtn
    /\ UNCHANGED <<loadedData, totalsData, pending, mcArgs, currentSimulationResult,
                   currentLeftX, isDraggingLeft>>
    /\ UNCHANGED <<runVars, statVars, tornado, pert, emitted, polar>>

\* a requestAnimationFrame callback runs, lines 588-612: the outer one asks
\* for the inner one, the inner one calls setupHistogramInteractivity(canvas,
\* results, stats), lines 622-884
FrameFires ==
    /\ pending.kind = "none"
    /\ frames # <<>>
    /\ IF Head(frames).stage = 1
       THEN /\ frames' = Append(Tail(frames), [Head(frames) EXCEPT !.stage = 2])
            /\ UNCHANGED interactivity
       ELSE /\ frames' = Tail(frames)
            /\ IF histogramChart.exists
               THEN interactivity' = [listening |-> TRUE, exported |-> TRUE,
                                      res |-> Head(frames).res, stats |-> Head(frames).stats]
               ELSE UNCHANGED interactivity
    /\ UNCHANGED <<loadedData, totalsData, runSimulationBtn, pending, mcArgs,
                   currentSimulationResult, currentLeftX, timers, histogramChart,
                   isDraggingLeft>>
    /\ UNCHANGED <<runVars, statVars, tornado, pert, emitted, polar>>

(* --------------------------- the left cut line ---------------------------- *)
\* the values asked for: typed into Izquierda X, handed to onLeftCutChange,
\* or under the pointer
CutInputs == {1, 4, 7}

\* actualizarIzquierdaX, lines 980-1009
ActualizarIzquierdaX ==
    /\ Settled
    /\ currentSimulationResult.kind # "null"
    /\ \E newLeftX \in CutInputs, cv \in CanvasStates :
          /\ IF newLeftX < currentSimulationResult.stats.min
                \/ newLeftX > currentSimulationResult.stats.max
             THEN UNCHANGED <<currentLeftX, timers, frames, histogramChart, interactivity>>
             ELSE /\ currentLeftX' = [x |-> newLeftX, w |-> newLeftX]
                  /\ CrearHistograma(currentSimulationResult.res, currentSimulationResult.stats,
                                     currentSimulationResult.bins, cv, timers, frames)
    /\ UNCHANGED <<loadedData, totalsData, runSimulationBtn, pending, mcArgs,
                   currentSimulationResult, isDraggingLeft>>
    /\ UNCHANGED <<runVars, statVars, tornado, pert, emitted, polar>>

\* window.onLeftCutChange(newLeftX), lines 686-721: results and stats are
\* those setupHistogramInteractivity was called with
OnLeftCutChange ==
    /\ Settled
    /\ interactivity.exported
    /\ \E newLeftX \in CutInputs, cv \in CanvasStates :
          /\ IF newLeftX < interactivity.stats.min \/ newLeftX > interactivity.stats.max
             THEN UNCHANGED <<currentLeftX, timers, frames, histogramChart, interactivity>>
             ELSE /\ currentLeftX' = [x |-> newLeftX, w |-> newLeftX]
                  /\ CrearHistograma(interactivity.res, interactivity.stats,
                                     histogramChart.bins, cv, timers, frames)
    /\ UNCHANGED <<loadedData, totalsData, runSimulationBtn, pending, mcArgs,
                   currentSimulationResult, isDraggingLeft>>
    /\ UNCHANGED <<runVars, statVars, tornado, pert, emitted, polar>>

\* lines 739-741: where the left line stands for the mouse handlers
LinePosition ==
    IF currentLeftX.w # Nullish THEN currentLeftX.w ELSE interactivity.stats.percentile5

\* mousedown on the canvas, lines 724-780: the drag starts when the pointer
\* is on the left line
MouseDown ==
    /\ Settled
    /\ interactivity.listening /\ histogramChart.exists
    /\ \E pointer \in CutInputs :
          isDraggingLeft' = IF pointer = LinePosition THEN TRUE ELSE isDraggingLeft
    /\ UNCHANGED <<loadedData, totalsData, runSimulationBtn, pending, mcArgs,
                   currentSimulationResult, currentLeftX, timers, frames, histogramChart,
                   interactivity>>
    /\ UNCHANGED <<runVars, statVars, tornado, pert, emitted, polar>>

\* mousemove on the canvas, lines 783-844: newValue is the value under the
\* pointer
MouseMove ==
    /\ Settled
    /\ interactivity.listening /\ histogramChart.exists
    /\ \E newValue \in CutInputs :
          IF isDraggingLeft /\ newValue >= interactivity.stats.min
                            /\ newValue <= interactivity.stats.max
          THEN currentLeftX' = [x |-> newValue, w |-> newValue]
          ELSE UNCHANGED currentLeftX
    /\ UNCHANGED <<loadedData, totalsData, runSimulationBtn, pending, mcArgs,
                   currentSimulationResult, timers, frames, histogramChart, interactivity,
                   isDraggingLeft>>
    /\ UNCHANGED <<runVars, statVars, tornado, pert, emitted, polar>>

\* mouseup, lines 846-864, and mouseleave, lines 866-872
MouseUp ==
    /\ Settled
    /\ interactivity.listening
    /\ isDraggingLeft
    /\ isDraggingLeft' = FALSE
    /\ \E leaves \in BOOLEAN, cv \in CanvasStates :
          /\ IF leaves
             THEN UNCHANGED <<timers, frames, histogramChart, interactivity>>
             ELSE CrearHistograma(interactivity.res, interactivity.stats, histogramChart.bins,
                                  cv, timers, frames)
    /\ UNCHANGED <<loadedData, totalsData, runSimulationBtn, pending, mcArgs,
                   currentSimulationResult, currentLeftX>>
    /\ UNCHANGED <<runVars, statVars, tornado, pert, emitted, polar>>

InitPage ==
    /\ NoPage
    /\ polar = NoPolar
    /\ tornado = NoTornado
    /\ pert = NoPert
    /\ emitted = <<>>
    /\ NoStats
    /\ Idle

NextPage ==
    \/ ProcesarDatos
    \/ EjecutarSimulacion
    \/ Resume
    \/ TimerFires
    \/ FrameFires
    \/ ActualizarIzquierdaX
    \/ OnLeftCutChange
    \/ MouseDown
    \/ MouseMove
    \/ MouseUp

SpecPage == InitPage /\ [][NextPage]_vars

\* the browser runs every callback it holds: the continuation of an await, a
\* timer that has expired, an animation frame; what the user does is left free
SpecPageFair ==
    /\ InitPage
    /\ [][NextPage]_vars
    /\ WF_vars(Resume)
    /\ WF_vars(TimerFires)
    /\ WF_vars(FrameFires)

(* ============================== properties =========================== *)
RunReturned == pc = "done" /\ outcome.kind = "resultado"

\* C1: two calls with the same items, iterations and seed (zero included)
\* return identical results, statistics and per-item samples.
C1_SameSeedSameResult ==
    (RunReturned /\ firstRun.kind = "ran" /\ firstRun.outcome.kind = "resultado"
       /\ options.hasSeed /\ firstRun.options.hasSeed
       /\ options.seed = firstRun.options.seed)
    => /\ outcome.results = firstRun.outcome.results
       /\ outcome.stats = firstRun.outcome.stats
       /\ (outcome.hasPerItemSamples /\ firstRun.outcome.hasPerItemSamples
             => outcome.perItemSamples = firstRun.outcome.perItemSamples)

\* the arguments the claims call invalid, read off the arguments themselves
BadIterations == iterations.half \/ iterations.whole <= 0
NotANumber(v) == v = NaN \/ v >= TxtBase
BadItem(item) ==
    \/ NotANumber(item.a) \/ NotANumber(item.m) \/ NotANumber(item.b)
    \/ item.a > item.m
    \/ item.m > item.b
InvalidArguments ==
    BadIterations \/ items = <<>> \/ \E k \in 1..Len(items) : BadItem(items[k])

\* C2: with invalid arguments the call fails before any random source is
\* created, before any progress report and without producing results.
C2_ValidationFailsFirst ==
    InvalidArguments =>
       /\ pc \in {"start", "failed"}
       /\ rng = NoRng
       /\ results = <<>>
       /\ perItemSamples = <<>>
       /\ progressLog = <<>>
       /\ outcome.kind # "resultado"
       /\ (pc = "failed" => outcome.kind = "error" /\ outcome.error \in {"iterations", "empty", "item"})

SumOfA == SumSeq([k \in 1..Len(items) |-> parseFloat(items[k].a)])
SumOfB == SumSeq([k \in 1..Len(items) |-> parseFloat(items[k].b)])

\* C3: every total of a returned series lies between the sum of the minima
\* and the sum of the maxima of the items.
C3_TotalsWithinRange ==
    RunReturned =>
       \A k \in 1..Len(outcome.results) :
          /\ BQ * SumOfA <= outcome.results[k]
          /\ outcome.results[k] <= BQ * SumOfB

\* a returned run of several iterations over two items, one of them spread out
C3_Witness ==
    /\ RunReturned
    /\ Len(items) = 2
    /\ Len(outcome.results) >= 2
    /\ \E k \in 1..Len(items) : items[k].a < items[k].b
    /\ \E k \in 1..Len(outcome.results) : outcome.results[k] > BQ * SumOfA

Degenerate(item) == ~BadItem(item) /\ item.a = item.b /\ item.b # Inf

\* C4: an item with a = m = b contributes exactly a to every iteration it has
\* been sampled in, and a series over such items alone is constant.
C4_DegenerateIsExact ==
    /\ \A j \in 1..Len(perItemSamples) : \A k \in 1..Len(perItemSamples[j]) :
          (Degenerate(items[j]) /\ perItemSamples[j][k] # Hole)
             => perItemSamples[j][k] = BQ * items[j].a
    /\ (RunReturned /\ \A j \in 1..Len(items) : Degenerate(items[j]))
          => \A k \in 1..Len(outcome.results) : outcome.results[k] = BQ * SumOfA

\* the run over the single item {5, 5, 5} has returned 5 in every iteration
C4_Witness ==
    /\ RunReturned
    /\ items = <<ItemFive>>
    /\ Len(outcome.results) >= 2
    /\ outcome.hasPerItemSamples
    /\ \A k \in 1..Len(outcome.results) : outcome.perItemSamples[1][k] = BQ * 5

Assigned(arr) == \A k \in 1..Len(arr) : arr[k] # Hole

\* C5: a returned series has exactly `iterations` entries, all assigned; the
\* per-item samples have one row per item, each of `iterations` assigned
\* entries, and are present exactly when they were requested.
C5_Shapes ==
    RunReturned =>
       /\ Len(outcome.results) = iterations.whole
       /\ Assigned(outcome.results)
       /\ outcome.hasPerItemSamples = options.perItemSamples
       /\ options.perItemSamples =>
             /\ Len(outcome.perItemSamples) = Len(items)
             /\ \A j \in 1..Len(items) :
                   /\ Len(outcome.perItemSamples[j]) = iterations.whole
                   /\ Assigned(outcome.perItemSamples[j])
       /\ ~options.perItemSamples => outcome.perItemSamples = <<>>

\* both kinds of return have happened: a second call without the per-item
\* samples after a first call that asked for them
C5_Witness ==
    /\ RunReturned
    /\ ~options.perItemSamples
    /\ Len(outcome.results) >= 2
    /\ Len(items) = 2
    /\ firstRun.kind = "ran"
    /\ firstRun.outcome.kind = "resultado"
    /\ firstRun.outcome.hasPerItemSamples

ColumnSum(per, k) == SumSeq([j \in 1..Len(per) |-> per[j][k]])

\* C6: with the per-item samples captured, each total is the sum over the
\* items of that iteration's samples.
C6_TotalIsSumOfSamples ==
    (RunReturned /\ outcome.hasPerItemSamples) =>
       \A k \in 1..Len(outcome.results) :
          outcome.results[k] = ColumnSum(outcome.perItemSamples, k)

\* a returned run over two items whose samples differ between the items
C6_Witness ==
    /\ RunReturned
    /\ outcome.hasPerItemSamples
    /\ Len(items) = 2
    /\ Len(outcome.results) >= 2
    /\ \E k \in 1..Len(outcome.results) :
          outcome.perItemSamples[1][k] # outcome.perItemSamples[2][k]

NaNFailure == pc = "failed" /\ outcome = [kind |-> "error", error |-> "nan"]

\* C7: no returned series contains NaN; the NaN error is raised only by the
\* pass after the loop, when every iteration has run and stored its total.
C7_NaNOnlyAfterLoop ==
    /\ RunReturned => ~HasNaN(outcome.results)
    /\ NaNFailure =>
          /\ locals.i = iterations.whole
          /\ Len(results) = iterations.whole
          /\ Assigned(results)
          /\ HasNaN(results)
    /\ (pc \in {"loop", "post"} /\ HasNaN(results)) => outcome.kind = "none"

\* a NaN total of the first iteration did not stop the second one
C7_Witness ==
    /\ NaNFailure
    /\ Len(results) >= 2
    /\ IsNaN(results[1])
    /\ results[Len(results)] # Hole

StatCallsMade == {k \in 1..Len(statCalls) : ~statCalls[k].error}

\* C8: percentile5 and percentile95 of the statistics record are the order
\* statistics interpolated linearly at index p (n - 1), as percentile
\* computes them, for p = 0.05 and p = 0.95.
C8_PercentilesInterpolated ==
    \A k \in StatCallsMade :
       /\ DblFromInt(statCalls[k].stats.percentile5) = percentile(SortAsc(statCalls[k].arg), 5)
       /\ DblFromInt(statCalls[k].stats.percentile95) = percentile(SortAsc(statCalls[k].arg), 95)

PctCallsMade == {k \in 1..Len(pctCalls) : pctCalls[k].sorted # <<>>}

\* C9: on a non-empty sorted series percentile at 0 is the minimum, at 1 the
\* maximum, every value lies between the two, and a larger p never gives a
\* smaller value.
C9_PercentileBoundsAndOrder ==
    /\ \A k \in PctCallsMade :
          LET c == pctCalls[k]
              least == DblFromInt(c.sorted[1])
              most == DblFromInt(c.sorted[Len(c.sorted)])
          IN /\ c.p = 0 => c.value = least
             /\ c.p = PD => c.value = most
             /\ DblLeq(least, c.value)
             /\ DblLeq(c.value, most)
    /\ \A k \in PctCallsMade, h \in PctCallsMade :
          pctCalls[k].p <= pctCalls[h].p => DblLeq(pctCalls[k].value, pctCalls[h].value)

\* C10: getStatistics leaves the series it is given as it was, and a second
\* call on the same series returns the same record as the first.
C10_StatisticsArePure ==
    /\ \A k \in 1..Len(statCalls) : statCalls[k].after = statCalls[k].arg
    /\ Len(statCalls) = 2 =>
          /\ statCalls[2].arg = statCalls[1].arg
          /\ statCalls[2].stats = statCalls[1].stats
          /\ statCalls[2].error = statCalls[1].error

\* two calls have been made on a series that is not in ascending order
C10_Witness ==
    /\ Len(statCalls) = 2
    /\ ~statCalls[2].error
    /\ \E k \in 1..(Len(series) - 1) : series[k] > series[k + 1]

\* C11: getStatistics on an empty or missing series fails with an error and
\* hands back no statistics record.
C11_EmptySeriesFails ==
    \A k \in 1..Len(statCalls) :
       (statCalls[k].arg = <<>> \/ statCalls[k].arg = <<Nullish>>)
          => statCalls[k].error /\ statCalls[k].stats = <<>>

\* getStatistics has been called on the empty series and has failed
C11_Witness ==
    /\ Len(statCalls) >= 1
    /\ statCalls[1].arg = <<>>
    /\ statCalls[1].error

\* C12: calcularContribucionVarianza on an empty totals series fails with an
\* error and returns no contribution records.
C12_EmptyTotalsFail ==
    (tornado.called /\ tornado.totalSamples = <<>>)
       => tornado.error /\ tornado.contributions = <<>>

\* n^3 times the population variance of a series of n values
ScaledVariance(samples) ==
    SumSeq([k \in 1..Len(samples) |->
               (Len(samples) * samples[k] - SumSeq(samples))
               * (Len(samples) * samples[k] - SumSeq(samples))])

TotalsVary == tornado.totalSamples # <<>> /\ ScaledVariance(tornado.totalSamples) > 0

\* C13: when the totals are the element-wise sums of the per-item series and
\* varTotal > 0, the covariances returned sum to varTotal and the
\* contribution percentages sum to 100.
C13_ContributionsSumToWhole ==
    (tornado.called /\ TotalsVary /\ tornado.totalSamples = TotalsOf(tornado.perItemSamples))
    => LET c == tornado.contributions
       IN /\ SumSeq([i \in 1..Len(c) |-> c[i].covariance]) = ScaledVariance(tornado.totalSamples)
          /\ \A i \in 1..Len(c) :
                ~c[i].contribution.nan /\ c[i].contribution.den = ScaledVariance(tornado.totalSamples)
          /\ SumSeq([i \in 1..Len(c) |-> c[i].contribution.num])
                = 100 * ScaledVariance(tornado.totalSamples)

\* two items that both vary, one of them against the total
C13_Witness ==
    /\ tornado.called
    /\ TotalsVary
    /\ Len(tornado.contributions) = 2
    /\ tornado.contributions[1].covariance < 0
    /\ tornado.contributions[2].covariance > 0

\* C14: when varTotal = 0 the call raises no error and repairs nothing: one
\* record per item comes back, each with a NaN contribution.
C14_ZeroVarianceGivesNaN ==
    (tornado.called /\ tornado.totalSamples # <<>>
       /\ ScaledVariance(tornado.totalSamples) = 0)
    => /\ ~tornado.error
       /\ Len(tornado.contributions) = Len(tornado.perItemSamples)
       /\ \A i \in 1..Len(tornado.contributions) : tornado.contributions[i].contribution.nan

\* constant totals over two items that each vary
C14_Witness ==
    /\ tornado.called
    /\ Len(tornado.totalSamples) >= 2
    /\ ScaledVariance(tornado.totalSamples) = 0
    /\ Len(tornado.contributions) = 2
    /\ tornado.contributions[1].variance > 0
    /\ tornado.contributions[1].contribution.nan

\* C15: every value handed out by the generator of createSeededRNG lies in
\* [0, 1), whatever 32-bit state it has reached.
C15_DrawsBelowOne ==
    \A k \in 1..Len(emitted) : 0 <= emitted[k] /\ emitted[k] < F

\* C16: for every integer seed the generator's state is non-zero before every
\* draw: a zero seed is replaced by a non-zero default and the all-zero state
\* is never reached.
C16_StateNeverZero ==
    rng.kind = "seeded" => rng.st # ZeroWord

\* the invocations that report the final iteration
FinalReports == {k \in 1..Len(progressLog) : progressLog[k].completed = iterations.whole}

\* C17: with a progress callback, a run that completes its loop has invoked
\* the callback for the final iteration exactly once, as its last invocation,
\* with percent = 100, completed = iterations and total = iterations.
C17_FinalIterationReported ==
    (pc = "post" /\ options.progressCallback)
    => /\ FinalReports = {Len(progressLog)}
       /\ progressLog[Len(progressLog)] =
             [percent |-> 100 * 100, completed |-> iterations.whole, total |-> iterations.whole]

\* a long run whose final report follows interval reports
C17_Witness ==
    /\ pc = "post"
    /\ options.progressCallback
    /\ iterations.whole > 2000
    /\ Len(progressLog) > 1
    /\ progressLog[Len(progressLog)].percent = 100 * 100

\* C20: the callback is invoked at most 101 times whatever the iteration
\* count, two consecutive invocations before the final one are at least 100
\* iterations apart and 1% of the iterations apart (rounded down) where that
\* exceeds 100, and the completed counts strictly increase.
C20_CheckpointsBoundedAndSpaced ==
    /\ Len(progressLog) <= 101
    /\ \A k \in 1..(Len(progressLog) - 1) :
          /\ progressLog[k].completed < progressLog[k + 1].completed
          /\ (k + 1) \notin FinalReports
             => LET gap == progressLog[k + 1].completed - progressLog[k].completed
                IN /\ gap >= 100
                   /\ gap >= iterations.whole \div 100
                   /\ gap > 100 => gap * 100 <= iterations.whole

\* the run that reaches 101 invocations
C20_Witness ==
    /\ pc = "post"
    /\ Len(progressLog) = 101
    /\ progressLog[2].completed - progressLog[1].completed = 100

\* both runs returned and were given the same seed, one the generator keeps
SameSeedBothReturned ==
    /\ RunReturned
    /\ firstRun.kind = "ran"
    /\ firstRun.outcome.kind = "resultado"
    /\ options.hasSeed
    /\ firstRun.options.hasSeed
    /\ options.seed = firstRun.options.seed
    /\ ~SeedIsFalsy(options.seed)

ProperRow ==
    /\ pert.called
    /\ IsFinite(parseFloat(pert.a)) /\ IsFinite(parseFloat(pert.m)) /\ IsFinite(parseFloat(pert.b))
    /\ parseFloat(pert.a) <= parseFloat(pert.m)
    /\ parseFloat(pert.m) <= parseFloat(pert.b)
    /\ parseFloat(pert.b) - parseFloat(pert.a) >= 1

\* C19: for a <= m <= b with b > a, calcularParametrosBetaPERT returns
\* alpha = 1 + 4 (m - a) / (b - a) and beta = 1 + 4 (b - m) / (b - a), and the
\* mean a + (b - a) alpha / (alpha + beta) they imply equals (a + 4 m + b) / 6,
\* the value calcularPERT reports for the row.  Fractions are compared by
\* cross-multiplication.
C19_ShapesGivePertMean ==
    ProperRow
    => LET a == parseFloat(pert.a)
           m == parseFloat(pert.m)
           b == parseFloat(pert.b)
           e == pert.params.exact
           v == pert.value
       IN /\ ~pert.params.error /\ ~pert.params.isConstant
          /\ e.den > 0
          /\ e.alphaNum * (b - a) = e.den * ((b - a) + 4 * (m - a))
          /\ e.betaNum * (b - a) = e.den * ((b - a) + 4 * (b - m))
          /\ pert.params.alpha = (F * ((b - a) + 4 * (m - a))) \div (b - a)
          /\ pert.params.beta = (F * ((b - a) + 4 * (b - m))) \div (b - a)
          /\ ~v.null
          /\ v.num * 6 = (a + 4 * m + b) * v.den
          /\ (a * (e.alphaNum + e.betaNum) + (b - a) * e.alphaNum) * v.den
                = v.num * (e.alphaNum + e.betaNum)

\* a skewed row, one of its cells given as text
C19_Witness ==
    /\ ProperRow
    /\ pert.m = TxtBase + 2
    /\ pert.a = 0
    /\ pert.b = 3
    /\ pert.params.exact.alphaNum > pert.params.exact.betaNum

\* how many values of the series fall in the 2-decimal bucket of its k-th value
BucketCount(arr, k) ==
    Cardinality({h \in 1..Len(arr) : RoundKey(arr[h], 1) = RoundKey(arr[k], 1)})

\* the positions whose bucket has the maximal count
FullestAt(arr) == {k \in 1..Len(arr) : \A h \in 1..Len(arr) : BucketCount(arr, h) <= BucketCount(arr, k)}

\* C21: the mode is the 2-decimal-rounded value of a bucket of maximal count,
\* and among several such buckets the one that occurs first in the series.
C21_ModeIsFirstSeenFullest ==
    \A k \in StatCallsMade :
       LET arr == statCalls[k].arg
           first == CHOOSE i \in FullestAt(arr) : \A h \in FullestAt(arr) : i <= h
       IN statCalls[k].stats.mode = RoundKey(arr[first], 1)

\* C22: over the pairs of uniforms the polar transform of gammaRandom yields
\* candidates x of both signs, hence candidates v = 1 + c x below 1 as well
\* as above 1: once every pair has been tried, each kind has been seen.
C22_CandidatesOfBothSigns ==
    polar.at = PolarPairs
    => /\ polar.negative > 0
       /\ polar.positive > 0
       /\ polar.below > 0
       /\ polar.above > 0

\* the loop has been left with every iteration run
LoopComplete ==
    /\ locals.i = iterations.whole
    /\ Len(results) = iterations.whole
    /\ Assigned(results)

\* a step taken inside the loop: the sample of the next item in item order,
\* drawn (if at all) from the run's stream, or the end of the iteration once
\* every item has been sampled
LoopStep ==
    pc = "loop" =>
       \/ /\ locals.j < Len(locals.validatedItems)
          /\ pc' = "loop"
          /\ locals'.i = locals.i
          /\ locals'.j = locals.j + 1
          /\ rng'.kind = rng.kind /\ rng'.n >= rng.n
          /\ results' = results
       \/ /\ locals.j < Len(locals.validatedItems)
          /\ pc' = "hung"
       \/ /\ locals.j = Len(locals.validatedItems)
          /\ pc' = (IF locals.i + 1 < iterations.whole THEN "loop" ELSE "post")
          /\ locals'.i = locals.i + 1
          /\ locals'.j = 0
          /\ rng' = rng
          /\ results'[locals.i + 1] # Hole

\* C23: a run that passes validation takes, in every iteration, one sample
\* per item in item order from its one stream, runs exactly `iterations`
\* iterations before it leaves the loop, and completes unless a Gamma
\* rejection loop never accepts.
C23_RunsEveryIterationInOrder ==
    /\ []((pc \in {"post", "done"} \/ NaNFailure) => LoopComplete)
    /\ [][LoopStep]_vars
    /\ (pc = "ready") ~> (pc \in {"done", "failed", "hung"})

\* a run of several iterations over several items that drew from the stream
C23_Witness ==
    /\ RunReturned
    /\ iterations.whole >= 2
    /\ Len(items) >= 2
    /\ rng.n > 0
    /\ LoopComplete

\* alpha + beta = 6 with both in [1, 5], as exact fractions and as the shapes
\* handed to gammaRandom
ShapesInRange(param) ==
    /\ param.exact.den > 0
    /\ param.exact.alphaNum + param.exact.betaNum = 6 * param.exact.den
    /\ param.exact.den <= param.exact.alphaNum /\ param.exact.alphaNum <= 5 * param.exact.den
    /\ param.exact.den <= param.exact.betaNum /\ param.exact.betaNum <= 5 * param.exact.den
    /\ param.alpha # NaN /\ param.alpha >= F
    /\ param.beta # NaN /\ param.beta >= F

\* C24: every validated item that is not degenerate has alpha + beta = 6 with
\* 1 <= alpha <= 5 and 1 <= beta <= 5, so that no shape below 1 is handed to
\* gammaRandom by a run.
C24_ShapesSumToSix ==
    \A k \in 1..Len(locals.parametrosPERT) :
       ~locals.parametrosPERT[k].isConstant => ShapesInRange(locals.parametrosPERT[k])

\* both runs returned with their per-item samples, on lists one degenerate
\* item apart, from a seed the generator keeps
EditedBothReturned ==
    /\ RunReturned
    /\ firstRun.kind = "edited"
    /\ firstRun.outcome.kind = "resultado"
    /\ outcome.hasPerItemSamples
    /\ firstRun.outcome.hasPerItemSamples
    /\ ~SeedIsFalsy(options.seed)

\* the run on the longer list and the run on the shorter list
LongerRun == IF firstRun.edit.kind = "insert" THEN outcome ELSE firstRun.outcome
ShorterRun == IF firstRun.edit.kind = "insert" THEN firstRun.outcome ELSE outcome

StatFields ==
    {"min", "max", "mean", "median", "mode", "sd", "skewness", "kurtosis",
     "percentile5", "percentile50", "percentile95", "ic90_halfWidth"}

\* C26: for a non-empty series of finite numbers every field of the record
\* getStatistics returns is a number, not NaN, a series of equal values
\* included.
C26_NoFieldIsNaN ==
    \A k \in StatCallsMade : \A f \in StatFields : ~IsNaN(statCalls[k].stats[f])

\* C27: once the page holds a simulation result, whatever runs, edits of
\* Izquierda X, onLeftCutChange calls and drags follow, currentLeftX lies
\* between the min and the max of the statistics of that result, and
\* window.currentLeftX equals it
C27_LeftCutWithinCurrentRange ==
    currentSimulationResult.kind # "null" =>
        /\ currentLeftX.w = currentLeftX.x
        /\ currentLeftX.x >= currentSimulationResult.stats.min
        /\ currentLeftX.x <= currentSimulationResult.stats.max

\* C28: whenever ejecutarSimulacion has disabled the run button, the button
\* is later enabled again with its label back to 'Ejecutar Simulación',
\* whether the run succeeds, is rejected, or the deferred drawing fails
C28_ButtonComesBack ==
    runSimulationBtn.disabled ~>
        (~runSimulationBtn.disabled /\ runSimulationBtn.textContent = LabelRun)

\* C29: crearHistograma puts every result in exactly one of its bins, so the
\* chart has one count per bin and the counts add up to the number of
\* results, also when all the results are equal
C29_EveryResultInOneBin ==
    histogramChart.exists =>
        /\ Len(histogramChart.counts) = BinsOf(histogramChart.bins, Len(histogramChart.res))
        /\ SumSeq(histogramChart.counts) = Len(histogramChart.res)

\* the rows of the file behind the items handed to runMonteCarlo
SimulatedRows == {mcArgs.items[k].row : k \in 1..Len(mcArgs.items)}

\* C30: while a run the page started is under way, the rows handed to
\* runMonteCarlo are the rows summed into window.totalsData, and none of them
\* is a row whose ITEM is TOTAL or TOTALS
C30_SimulatedRowsAreSummedRows ==
    pending.kind # "none" =>
        /\ SimulatedRows = totalsData.rows
        /\ \A k \in 1..Len(mcArgs.items) :
              UpperTrim(mcArgs.items[k].id) \notin {"TOTAL", "TOTALS"}

====
